---- MODULE Spec2Model ----
(***************************************************************************)
(* A model of the rrpg rhythm-timing engine.                              *)
(*                                                                         *)
(* The specifications of this module:                                      *)
(*   Spec       the logic thread: one Bevy frame is the schedule           *)
(*              First -> PreUpdate (spawn_beatmap, interpolate_rhythm_     *)
(*              clock, create_key_events_keyboard) -> Update               *)
(*              (create_judgements, create_dropped_judgements) ->          *)
(*              PostUpdate (reorder_notes); the audio thread is seen only  *)
(*              through the consumed-sample counter it adds to.            *)
(*   SpawnSpec  the same frame for a beatmap of one empty lane into which  *)
(*              a system spawns notes of any kind.                         *)
(*   AudioSpec  the real-time audio callback (audio_streamer) with its     *)
(*              queue, the Resampler and the OggDecoder.                   *)
(*   DecoderSpec  an OggDecoder sampled with buffers of any size.          *)
(*   BeatSpec   beat_position and beat_number of a Time<Rhythm>.           *)
(*   DeviceSpec the frame with the song played by start_spawned_audio, on  *)
(*              an application whose output device was opened or not.      *)
(*   ConfigSpec the choice of an output configuration by AudioDevice::init.*)
(*   TrackedSpec  a TrackedSource over an OggDecoder, sampled and sought.  *)
(*   PositionSpec  AudioControl::position against the counter, in ns.      *)
(*   ConsumeSpec  consume_buffer on the blocks a resampler produces.       *)
(*   OrderSpec  the sorts of BeatmapLoader::load and reorder_notes on      *)
(*              beats that can be NaN.                                     *)
(*                                                                         *)
(* Time is counted in units of 100 ms (UnitsPerSecond = 10); sample rates  *)
(* are scaled the same way (a rate of 10 is ten frames per second), so     *)
(* that the integer divisions of the code (60 s / bpm, 1 s / sample_rate)  *)
(* keep their truncating shape.  Beats are naturals.                       *)
(***************************************************************************)
EXTENDS Integers, Sequences, FiniteSets, TLC

VARIABLES
    \* ---- logic thread ----
    pc,                 \* position of the frame in the schedule
    real_delta,         \* Time<Real>::delta of the frame
    rhythm,             \* the Rhythm context of Time<Rhythm>
    rhythm_elapsed,     \* Time<Rhythm>::elapsed
    beatmap,            \* the Beatmap asset of the beatmap entity
    instanced,          \* the beatmap entity has a BeatmapInstance
    loads,              \* number of beatmap entities spawned after the first
    lanes,              \* Lane components, by lane number
    notes,              \* Note components, by note entity
    added_notes,        \* note entities still flagged Added<Note>
    key_events,         \* KeyEvents of the frame
    judgement_events,   \* every JudgementEvent sent since the beatmap was loaded
    main_ctl,           \* the AudioControl of the MainTrack entity
    device_rate,        \* StreamerOptions.sample_rate of the opened device
    sliders,            \* Slider components, by note entity
    keys_down,          \* the lanes whose key is down, as the key events tell
    \* ---- shared with the audio thread ----
    actl_timestamp,     \* AudioControlState.timestamp, by control state
    \* ---- audio thread ----
    audio_device,       \* AudioDevice.state as setup_sound_device left it
    audio_queue,        \* the channel of (OggDecoder, AudioControlState) pairs
    source,             \* the `source` of the audio_streamer closure
    data,               \* the hardware buffer as the last callback left it
    cb_pc,              \* where the audio thread is in the callback
    buf_len,            \* data.len() of the callback in progress
    mix,                \* buf[..buf_cursor] of the Resampler::sample in progress
    plays,              \* number of AudioDevice::play calls
    stream_frames,      \* frames counted for the active stream since it was accepted
    stream_failed,      \* sample() of the active stream has returned an error
    counter_at_accept,  \* the counter of the active control state just before
                        \* the callback that accepted it reset it
    mix_len,            \* `mix_len` of the last callback: the samples its source gave
    \* ---- an OggDecoder sampled on its own ----
    dec_asset,          \* the ogg file the decoder was made from
    decoder,            \* the OggDecoder
    decoded,            \* the samples its sample() calls have returned, in order
    dec_ended,          \* a sample() call came back short: the stream is at its end
    \* ---- a Time<Rhythm> asked for beats on its own, in milliseconds ----
    clock,              \* its Rhythm context
    beat_in,            \* the beat whose beat_position the position was set to
    beat_out,           \* what beat_number() then returned, in 1/BeatScale beats
    \* ---- AudioDevice::init choosing a configuration on its own, in Hz ----
    supported_configs,  \* what device.supported_output_configs() yields
    overflow_checks,    \* the build checks integer overflow (debug profile)
    init_result,        \* how the choice of init came out
    \* ---- notes ordered by beat on their own, a beat being a number or NaN ----
    note_beats,         \* the beats of the notes as they come, in order
    sorted_in,          \* which function has sorted them
    sort_result,        \* how the sort came out
    \* ---- a TrackedSource over an OggDecoder sampled and sought on its own ----
    trk_asset,          \* the ogg file the decoder was made from
    tracked,            \* the TrackedSource
    trk_op,             \* the last call made on it and whether it failed
    trk_from,           \* the packet the last successful seek put the stream at
                        \* (1 before any seek, 0 once a seek has failed)
    seek_base,          \* the position given to the last successful seek
    sampled_since,      \* sum of the counts successful sample() calls returned since
    seeks,              \* number of seek calls
    pos_rate,           \* PositionSpec: sample_rate of an AudioControl, in Hz
    pos_counter,        \* its timestamp counter, in frames
    pos_result,         \* the counter position() loaded last and the ns it returned
    con_state,          \* ConsumeSpec: to_buffer and to_buffer_rem of a ResamplerState
    con_block,          \* the frames of the block produced last, by channel
    con_out,            \* the samples consume_buffer has returned of that block
    con_produced,       \* frames produced so far
    song_loaded,        \* DeviceSpec: the song of the main track is in Assets<AudioSource>
    loaded_audio,       \* the main track entity has LoadedAudio
    play_result         \* what AudioDevice::play returned to start_spawned_audio

vars == <<pc, real_delta, rhythm, rhythm_elapsed, beatmap, instanced, loads,
          lanes, notes, added_notes, key_events, judgement_events,
          main_ctl, device_rate, sliders, keys_down, actl_timestamp, audio_device, audio_queue, source, data,
          cb_pc, buf_len, mix, plays, stream_frames, stream_failed,
          counter_at_accept, mix_len, dec_asset, decoder, decoded, dec_ended,
          supported_configs, overflow_checks, init_result,
          clock, beat_in, beat_out,
          note_beats, sorted_in, sort_result,
          trk_asset, tracked, trk_op, trk_from, seek_base, sampled_since, seeks,
          pos_rate, pos_counter, pos_result,
          con_state, con_block, con_out, con_produced,
          song_loaded, loaded_audio, play_result>>

(***************************************************************************)
(* Bounds                                                                  *)
(***************************************************************************)
MaxTime == 10       \* the rhythm clock and the device timestamp stay below this
MaxKeys == 1        \* key events per frame
MaxLoads == 1       \* beatmaps loaded after the first one
MaxSpawned == 2     \* notes spawned after spawn_beatmap
MaxSpawnTime == 1   \* the rhythm time up to which they are spawned

(***************************************************************************)
(* Program constants, scaled                                               *)
(***************************************************************************)
UnitsPerSecond == 10

MillisPerSecond == 1000

NOTE_WINDOW == 1    \* BeatmapInstance::default: 100 ms

DeviceRates == {5, 10}

Deltas == {0, 1, 8}

Chunks == {1, 4}

SpawnBeats == {1, 3}

SpawnKinds == {"SliderBegin", "SliderEnd"}

Ctls == 1..(MaxLoads + 1)

Some(x) == <<x>>

None == <<>>

Abs(x) == IF x < 0 THEN -x ELSE x

Max(a, b) == IF a >= b THEN a ELSE b

Min(a, b) == IF a <= b THEN a ELSE b

IsPrefix(s, t) == Len(s) <= Len(t) /\ s = SubSeq(t, 1, Len(s))

(***************************************************************************)
(* Beatmap assets.  BeatmapLoader::load sorts the notes by beat, so every  *)
(* asset holds them in ascending order.                                    *)
(***************************************************************************)
BeatmapNote(b, l) == [beat |-> b, lane |-> l]

Beatmaps ==
    { [lane_count |-> 1, bpm |-> 170, offset |-> 0,
       notes |-> <<BeatmapNote(1, 0), BeatmapNote(1, 0), BeatmapNote(2, 0)>>],
      [lane_count |-> 2, bpm |-> 300, offset |-> 2,
       notes |-> <<BeatmapNote(0, 1), BeatmapNote(1, 0), BeatmapNote(2, 0)>>] }

(***************************************************************************)
(* Rhythm clock                                                            *)
(***************************************************************************)
\* Rhythm::new with durations counted in 1/units_per_second seconds
Rhythm_new_in(units_per_second, bpm, offset) ==
    [bpm |-> bpm,
     crotchet |-> (units_per_second * 60) \div bpm,
     offset |-> offset,
     timestamp |-> 0,
     position |-> 0,
     is_interpolating |-> FALSE]

Rhythm_new(bpm, offset) == Rhythm_new_in(UnitsPerSecond, bpm, offset)

position(r) == r.position

beat_position(r, beat) == r.crotchet * beat + r.offset

BeatScale == 1000   \* a beat number is kept in thousandths of a beat

\* beat_number that takes the crotchet from the bpm anew
beat_number_from_bpm(r) ==
    ((position(r) - r.offset) * BeatScale * r.bpm) \div (MillisPerSecond * 60)

\* (position - offset) / crotchet
beat_number(r) ==
    LET timestamp == position(r) - r.offset
        crochet == r.crotchet
    IN  (timestamp * BeatScale) \div crochet

sample_duration(rate) == UnitsPerSecond \div rate

(***************************************************************************)
(* Lane                                                                    *)
(***************************************************************************)
Lane_new(number) == [number |-> number, notes |-> <<>>, current_note |-> 0]

next_note(lane) ==
    IF lane.current_note < Len(lane.notes)
    THEN Some(lane.notes[lane.current_note + 1])
    ELSE None

\* the entities from the cursor on, each with its index relative to the cursor
all_next_notes(lane) ==
    [i \in 1..Max(0, Len(lane.notes) - lane.current_note) |->
        lane.notes[lane.current_note + i]]

\* advance_note that leaves the cursor where it is
advance_note_stuck(lane) == lane

advance_note(lane) == [lane EXCEPT !.current_note = @ + 1]

\* skip_notes that assigns the count instead of adding it
skip_notes_assign(lane, to_skip) == [lane EXCEPT !.current_note = to_skip]

skip_notes(lane, to_skip) == [lane EXCEPT !.current_note = @ + to_skip]

(***************************************************************************)
(* Note.  A note entity is a child of the lane entity of its lane.         *)
(***************************************************************************)
NoteTypes == {"Note", "SliderBegin", "SliderEnd"}

Note_new(beat, kind, lane) == [beat |-> beat, kind |-> kind, lane |-> lane]

\* the Note spawn_beatmap makes of a tap note of the beatmap
Note_from(bn) == Note_new(bn.beat, "Note", bn.lane)

\* Slider::default
Slider_default == [duration_held |-> 0, down |-> FALSE]

\* Slider::set_down
Slider_set_down(slider, down) == [slider EXCEPT !.down = down]

\* tick_sliders for the sliders `ss` and a rhythm delta
tick_sliders(ss, delta) ==
    [e \in DOMAIN ss |->
        IF ss[e].down THEN [ss[e] EXCEPT !.duration_held = @ + delta] ELSE ss[e]]

(***************************************************************************)
(* Judgements                                                              *)
(***************************************************************************)
JudgementEvent(note, offset) == [note |-> note, offset |-> offset]

KeyEvent(timestamp, lane, kind) ==
    [timestamp |-> timestamp, lane |-> lane, kind |-> kind]

KeyEventTypes == {"Down", "Up"}

\* the difference taken the other way round
timing_diff_swapped(note_position, input_position) == input_position - note_position

\* `note_position.as_secs_f32() - input_position.as_secs_f32()`
timing_diff(note_position, input_position) == note_position - input_position

\* a window one unit wider than note_window
in_window_wide(diff, window_max) == Abs(diff) <= Abs(window_max) + 1

\* `diff.abs() <= window_max.abs()`
in_window(diff, window_max) == Abs(diff) <= Abs(window_max)

\* every lane advanced
advance_lane_all(ls, l) == [k \in DOMAIN ls |-> advance_note(ls[k])]

\* `lane.advance_note()` on the lane of the key
advance_lane(ls, l) == [ls EXCEPT ![l] = advance_note(ls[l])]

\* one pass of the `for key in key_events.read()` loop of create_judgements,
\* from the i-th event on; ls are the lanes and evs the events sent so far
RECURSIVE create_judgements_from(_, _, _, _, _, _, _)
create_judgements_from(i, keys, ls, ns, evs, r, has_instance) ==
    IF i > Len(keys) THEN [lanes |-> ls, events |-> evs]
    ELSE
        LET key == keys[i]
            skip == create_judgements_from(i + 1, keys, ls, ns, evs, r, has_instance)
        IN  IF key.kind # "Down" THEN skip
            ELSE IF key.lane \notin DOMAIN ls THEN skip
            ELSE IF ~has_instance THEN skip
            ELSE
                LET lane == ls[key.lane]
                    nn == next_note(lane)
                IN  IF nn = None \/ nn[1] \notin DOMAIN ns THEN skip
                    ELSE
                        LET note_entity == nn[1]
                            note_position == beat_position(r, ns[note_entity].beat)
                            input_position == key.timestamp
                            diff == timing_diff(note_position, input_position)
                        IN  IF in_window(diff, NOTE_WINDOW)
                            THEN create_judgements_from(i + 1, keys,
                                    advance_lane(ls, key.lane), ns,
                                    Append(evs, JudgementEvent(note_entity, Some(diff))),
                                    r, has_instance)
                            ELSE skip

\* the take_while test letting through a note exactly the window late
is_dropped_inclusive(current_position, note_position, note_window) ==
    /\ current_position >= note_position
    /\ current_position - note_position >= note_window

\* the take_while test: checked_sub gives an offset and it is greater than
\* the window
is_dropped(current_position, note_position, note_window) ==
    /\ current_position >= note_position
    /\ current_position - note_position > note_window

\* the number of leading notes of `next` (all_next_notes) the take_while of
\* create_dropped_judgements lets through
RECURSIVE dropped_prefix(_, _, _, _)
dropped_prefix(i, next, ns, r) ==
    IF i > Len(next) THEN 0
    ELSE
        LET note_position == beat_position(r, ns[next[i]].beat)
            current_position == position(r)
            late == is_dropped(current_position, note_position, NOTE_WINDOW)
        IN  IF late THEN 1 + dropped_prefix(i + 1, next, ns, r) ELSE 0

\* the body of the `for (mut lane, lane_parent) in lanes.iter_mut()` loop
dropped_in_lane(lane, ns, r) ==
    LET next == all_next_notes(lane)
        last_note_idx == dropped_prefix(1, next, ns, r)
    IN  [lane |-> skip_notes(lane, last_note_idx),
         events |-> [i \in 1..last_note_idx |-> JudgementEvent(next[i], None)]]

\* the events of the lanes, concatenated in lane order
RECURSIVE dropped_events(_, _, _, _)
dropped_events(l, ls, ns, r) ==
    IF l \notin DOMAIN ls THEN <<>>
    ELSE dropped_in_lane(ls[l], ns, r).events \o dropped_events(l + 1, ls, ns, r)

(***************************************************************************)
(* reorder_notes                                                           *)
(***************************************************************************)
Perms(S) ==
    { s \in [1..Cardinality(S) -> S] : \A i, j \in DOMAIN s : i # j => s[i] # s[j] }

IsSortedByBeat(s, ns) ==
    \A i, j \in DOMAIN s : i < j => ns[s[i]].beat <= ns[s[j]].beat

Range(s) == { s[i] : i \in DOMAIN s }

\* reorder_notes without the sort: the notes stay in push order
sort_unstable_by_beat_unsorted(s, ns) == {s}

\* the results sort_unstable_by may give for the entities of `s`
sort_unstable_by_beat(s, ns) ==
    { t \in Perms(Range(s)) : IsSortedByBeat(t, ns) }

(***************************************************************************)
(* Audio sources.  Samples are i16 values; an f32 sample is kept as a      *)
(* fixed-point number with F32_PER_I16 steps to one i16 step.              *)
(***************************************************************************)
CHANNEL_COUNT == 2

EQUILIBRIUM == 0

CHUNK_SIZE == 2     \* Resampler::new: 4096 frames, scaled

F32_PER_I16 == 2

BufLens == {2, 4}

Packet(samples) == [err |-> FALSE, samples |-> samples]

BadPacket == [err |-> TRUE, samples |-> <<>>]

\* the ogg files handed to AudioDevice::play: header fields and the packets
\* read_dec_packet_itl yields, a BadPacket being one that fails to decode
AudioAssets ==
    { [sample_rate |-> 10, channels |-> 2,
       packets |-> <<Packet(<<1, 2, 3, 4>>), Packet(<<5, 6>>)>>],
      [sample_rate |-> 5, channels |-> 2,
       packets |-> <<Packet(<<1, 2, 3, 4>>), Packet(<<5, 6>>)>>],
      [sample_rate |-> 10, channels |-> 2,
       packets |-> <<Packet(<<1, 2>>), BadPacket, Packet(<<3, 4>>)>>],
      [sample_rate |-> 0, channels |-> 2,
       packets |-> <<Packet(<<1, 2>>)>>],
      [sample_rate |-> 10, channels |-> 1,
       packets |-> <<Packet(<<1, 2, 3>>)>>] }

OggDecoder_new(asset) ==
    [sample_rate |-> asset.sample_rate,
     channels |-> asset.channels,
     stream |-> asset.packets,
     buffer |-> <<>>,
     buffer_cursor |-> 0]

remaining(d) == Len(d.buffer) - d.buffer_cursor

\* the cursor moved one sample too far
advance_buffer_cursor_skip(d, n) == [d EXCEPT !.buffer_cursor = @ + n + 1]

\* the cursor set to the length copied instead of moved on by it
advance_buffer_cursor_restart(d, n) == [d EXCEPT !.buffer_cursor = n]

\* `self.buffer_cursor += len`
advance_buffer_cursor(d, n) == [d EXCEPT !.buffer_cursor = @ + n]

\* the new packet taken with the cursor left where it was
reinit_buffer_keep_cursor(d, packet) == [d EXCEPT !.buffer = packet]

\* "reinit buffer": `self.buffer = data; self.buffer_cursor = 0`
reinit_buffer(d, packet) == [d EXCEPT !.buffer = packet, !.buffer_cursor = 0]

\* the while loop of OggDecoder::sample; out is buf[..cursor], len is buf.len()
RECURSIVE OggDecoder_sample_from(_, _, _)
OggDecoder_sample_from(d, out, len) ==
    IF Len(out) >= len THEN [inner |-> d, ok |-> TRUE, samples |-> out]
    ELSE IF remaining(d) > 0
    THEN LET n == Min(remaining(d), len - Len(out))
         IN  OggDecoder_sample_from(
                advance_buffer_cursor(d, n),
                out \o SubSeq(d.buffer, d.buffer_cursor + 1, d.buffer_cursor + n),
                len)
    ELSE IF d.stream = <<>> THEN [inner |-> d, ok |-> TRUE, samples |-> out]
    ELSE IF Head(d.stream).err
    THEN \* Err: `out` is what the call had written to buf by then
         [inner |-> [d EXCEPT !.stream = Tail(@)], ok |-> FALSE, samples |-> out]
    ELSE OggDecoder_sample_from(
            reinit_buffer([d EXCEPT !.stream = Tail(@)], Head(d.stream).samples),
            out, len)

\* a call that stops after the first sample
OggDecoder_sample_one(d, len) == OggDecoder_sample_from(d, <<>>, Min(len, 1))

OggDecoder_sample(d, len) == OggDecoder_sample_from(d, <<>>, len)

\* a seek that keeps the pending buffer
OggDecoder_seek_keep(d) == d

\* "reset buffers" of OggDecoder::seek
OggDecoder_seek_reset(d) == [d EXCEPT !.buffer = <<>>, !.buffer_cursor = 0]

\* OggDecoder::seek.  seek_absgp_pg either fails, and seek returns at the
\* `?` with the stream wherever the library left it, or puts the stream at
\* a page, and the buffers are reset; `stream` is what is left to read then
OggDecoder_seek(d, seek_ok, stream) ==
    IF seek_ok
    THEN [ok |-> TRUE, inner |-> OggDecoder_seek_reset([d EXCEPT !.stream = stream])]
    ELSE [ok |-> FALSE, inner |-> [d EXCEPT !.stream = stream]]

TrackedSource_new(inner) == [inner |-> inner, position |-> 0]

\* the position set to the count of the call
advance_position_restart(pos, sample_count) == sample_count

\* `self.position += sample_count`
advance_position(pos, sample_count) == pos + sample_count

TrackedSource_sample(t, len) ==
    LET r == OggDecoder_sample(t.inner, len)
    IN  IF ~r.ok
        THEN [ok |-> FALSE, samples |-> r.samples, source |-> [t EXCEPT !.inner = r.inner]]
        ELSE [ok |-> TRUE, samples |-> r.samples,
              source |-> [inner |-> r.inner,
                          position |-> advance_position(t.position, Len(r.samples))]]

TrackedSource_seek(t, pos, seek_ok, stream) ==
    LET r == OggDecoder_seek(t.inner, seek_ok, stream)
    IN  IF ~r.ok
        THEN [ok |-> FALSE, source |-> [t EXCEPT !.inner = r.inner]]
        ELSE [ok |-> TRUE, source |-> [inner |-> r.inner, position |-> pos]]

to_f32(sample) == sample * F32_PER_I16

to_i16(sample) == sample \div F32_PER_I16

\* FftFixedIn: the frames one processing step writes for CHUNK_SIZE frames read
fft_output_frames(from, to) == (CHUNK_SIZE * to) \div from

\* FftFixedIn::process_into_buffer on the first CHUNK_SIZE frames of a channel
\* (short input padded with zeros): every output frame holds the input frame
\* of its instant
fft_process_channel(input, from, to) ==
    [j \in 1..fft_output_frames(from, to) |->
        LET k == ((j - 1) * from) \div to + 1
        IN  IF k <= Len(input) THEN input[k] ELSE 0]

ResamplerState_new(from, to, channels) ==
    [from_buffer_itl_len |-> channels * CHUNK_SIZE,
     from_buffer |-> [c \in 1..channels |-> <<>>],
     to_buffer |-> [c \in 1..channels |-> [j \in 1..fft_output_frames(from, to) |-> 0]],
     to_buffer_rem |-> 0,
     fft |-> [from |-> from, to |-> to],
     eof |-> FALSE]

\* a Resampler that resamples also when the rates are equal
Resampler_new_no_passthrough(inner, to) ==
    [panic |-> inner.sample_rate = 0 \/ to = 0,
     value |-> [inner |-> inner, to |-> to,
                state |-> Some(ResamplerState_new(Max(inner.sample_rate, 1), Max(to, 1),
                                                  inner.channels))]]

\* Resampler::new_with_chunk_size; the asserts panic on a rate of 0
Resampler_new(inner, to) ==
    LET from == inner.sample_rate
    IN  IF from = 0 \/ to = 0
        THEN [panic |-> TRUE,
              value |-> [inner |-> inner, to |-> to, state |-> None]]
        ELSE [panic |-> FALSE,
              value |-> [inner |-> inner, to |-> to,
                         state |-> IF from = to THEN None
                                   ELSE Some(ResamplerState_new(from, to, inner.channels))]]

\* a buffer left as it is
RotateLeft_none(s, k) == s

\* `buffer.rotate_left(k)`
RotateLeft(s, k) == SubSeq(s, k + 1, Len(s)) \o SubSeq(s, 1, k)

interleave_samples(audio_in, len) ==
    LET channels == Len(audio_in)
    IN  [i \in 1..len |->
            to_i16(audio_in[((i - 1) % channels) + 1][((i - 1) \div channels) + 1])]

\* appends frame_count frames of the interleaved audio_in to the channels
deinterleave_samples(audio_in, audio_out, frame_count) ==
    LET channels == Len(audio_out)
    IN  [c \in 1..channels |->
            audio_out[c] \o [f \in 1..frame_count |->
                                to_f32(audio_in[(f - 1) * channels + c])]]

consume_buffer(len, state) ==
    LET channels == Len(state.to_buffer)
        out_len == Min(state.to_buffer_rem, len)
        out_len_frames == out_len \div channels
        out_len_rem == out_len % channels
    IN  [samples |-> interleave_samples(state.to_buffer, out_len),
         state |-> [state EXCEPT
            !.to_buffer = [c \in 1..channels |->
                IF c - 1 >= out_len_rem
                THEN RotateLeft(state.to_buffer[c], out_len_frames)
                ELSE RotateLeft(state.to_buffer[c], out_len_frames + 1)],
            !.to_buffer_rem = @ - out_len]]

\* the `while have_len < requested_len` loop of next_chunk
RECURSIVE fill_from_inner(_, _, _, _, _)
fill_from_inner(inner, state, have_len, requested_len, channels) ==
    IF have_len >= requested_len
    THEN [inner |-> inner, state |-> state, have_len |-> have_len, ok |-> TRUE]
    ELSE
        LET r == OggDecoder_sample(inner, state.from_buffer_itl_len)
            read_len == Len(r.samples)
        IN  IF ~r.ok
            THEN [inner |-> r.inner, state |-> state, have_len |-> have_len, ok |-> FALSE]
            ELSE IF read_len > 0
            THEN fill_from_inner(r.inner,
                    [state EXCEPT !.from_buffer =
                        deinterleave_samples(r.samples, @, read_len \div channels)],
                    have_len + read_len \div channels, requested_len, channels)
            ELSE [inner |-> r.inner, state |-> state, have_len |-> have_len, ok |-> TRUE]

\* next_chunk for a buffer of len samples.  `padded` is the answer of the
\* resampling library at the end of the stream: process_partial_into_buffer
\* reports as consumed either the zero-padded chunk or the frames present.
next_chunk(len, inner, state, channels, padded) ==
    IF state.eof
    THEN [inner |-> inner, state |-> state, ok |-> TRUE, panic |-> FALSE, samples |-> <<>>]
    ELSE IF state.to_buffer_rem > 0
    THEN LET c == consume_buffer(len, state)
         IN  [inner |-> inner, state |-> c.state, ok |-> TRUE, panic |-> FALSE,
              samples |-> c.samples]
    ELSE
        LET requested_len == CHUNK_SIZE
            filled == fill_from_inner(inner, state, Len(state.from_buffer[1]),
                                      requested_len, channels)
            at_end == filled.have_len < requested_len
            in_len == IF at_end /\ ~padded THEN filled.have_len ELSE requested_len
            out_len == fft_output_frames(state.fft.from, state.fft.to)
            drain_panics == \E c \in 1..channels : in_len > Len(filled.state.from_buffer[c])
            processed == [filled.state EXCEPT
                !.eof = at_end,
                !.to_buffer = [c \in 1..channels |->
                    fft_process_channel(filled.state.from_buffer[c],
                                        state.fft.from, state.fft.to)],
                !.from_buffer = [c \in 1..channels |->
                    SubSeq(filled.state.from_buffer[c], in_len + 1,
                           Len(filled.state.from_buffer[c]))],
                !.to_buffer_rem = out_len * channels]
        IN  IF ~filled.ok
            THEN [inner |-> filled.inner, state |-> filled.state, ok |-> FALSE,
                  panic |-> FALSE, samples |-> <<>>]
            ELSE IF drain_panics
            THEN [inner |-> filled.inner, state |-> filled.state, ok |-> FALSE,
                  panic |-> TRUE, samples |-> <<>>]
            ELSE LET c == consume_buffer(len, processed)
                 IN  [inner |-> filled.inner, state |-> c.state, ok |-> TRUE,
                      panic |-> FALSE, samples |-> c.samples]

(***************************************************************************)
(* The frame of the logic thread                                           *)
(***************************************************************************)
\* the audio-side variables of AudioSpec, which the logic thread never touches
audio_vars == <<audio_device, audio_queue, source, data, cb_pc, buf_len, mix, plays,
                stream_frames, stream_failed, counter_at_accept, mix_len>>

\* the Slider components and the keys held, which only a system that spawns
\* slider notes and the keyboard change
sld_vars == <<sliders, keys_down>>

logic_vars == <<pc, real_delta, rhythm, rhythm_elapsed, beatmap, instanced, loads,
                lanes, notes, added_notes, key_events, judgement_events,
                main_ctl, device_rate, sliders, keys_down>>

\* the variables of the specifications that run one component on its own
dec_vars == <<dec_asset, decoder, decoded, dec_ended>>

beat_vars == <<clock, beat_in, beat_out>>

cfg_vars == <<supported_configs, overflow_checks, init_result>>

ord_vars == <<note_beats, sorted_in, sort_result>>

trk_vars == <<trk_asset, tracked, trk_op, trk_from, seek_base, sampled_since, seeks>>

pos_vars == <<pos_rate, pos_counter, pos_result>>

con_vars == <<con_state, con_block, con_out, con_produced>>

sng_vars == <<song_loaded, loaded_audio, play_result>>

unit_vars == <<dec_vars, beat_vars, cfg_vars, ord_vars, trk_vars, pos_vars, con_vars, sng_vars>>

\* no decoder is sampled on its own
DecoderIdle ==
    /\ dec_asset = [sample_rate |-> 10, channels |-> 2, packets |-> <<>>]
    /\ decoder = OggDecoder_new(dec_asset)
    /\ decoded = <<>>
    /\ dec_ended = FALSE

\* no clock is asked on its own
BeatIdle ==
    /\ clock = Rhythm_new_in(MillisPerSecond, 60, 0)
    /\ beat_in = None
    /\ beat_out = None

\* no device is asked for its configurations on its own
ConfigIdle ==
    /\ supported_configs = <<>>
    /\ overflow_checks = FALSE
    /\ init_result = None

\* no notes are ordered on their own
OrderIdle ==
    /\ note_beats = <<>>
    /\ sorted_in = "none"
    /\ sort_result = None

\* no TrackedSource is used on its own
TrackedIdle ==
    /\ trk_asset = [sample_rate |-> 10, channels |-> 2, packets |-> <<>>]
    /\ tracked = TrackedSource_new(OggDecoder_new(trk_asset))
    /\ trk_op = "new"
    /\ trk_from = 1
    /\ seek_base = 0
    /\ sampled_since = 0
    /\ seeks = 0

DEFAULT_SAMPLE_RATE == 48000

\* no position of an AudioControl is read on its own
PositionIdle ==
    /\ pos_rate = DEFAULT_SAMPLE_RATE
    /\ pos_counter = 0
    /\ pos_result = None

\* no block of a resampler is consumed on its own
ConsumeIdle ==
    /\ con_state = [to_buffer |-> <<<<>>>>, to_buffer_rem |-> 0]
    /\ con_block = <<<<>>>>
    /\ con_out = <<>>
    /\ con_produced = 0

\* the song is not loaded and start_spawned_audio has played nothing
SongIdle ==
    /\ song_loaded = FALSE
    /\ loaded_audio = FALSE
    /\ play_result = None

UnitIdle ==
    /\ DecoderIdle
    /\ BeatIdle
    /\ ConfigIdle
    /\ SongIdle
    /\ ConsumeIdle
    /\ PositionIdle
    /\ TrackedIdle
    /\ OrderIdle

\* the logic thread at startup: default resources, a beatmap entity spawned
\* and not yet instanced
FrameStart ==
    /\ pc = "first"
    /\ real_delta = 0
    /\ rhythm = Rhythm_new(60, 0)            \* Rhythm::default
    /\ rhythm_elapsed = 0
    /\ instanced = FALSE
    /\ loads = 0
    /\ lanes = <<>>
    /\ notes = <<>>
    /\ added_notes = {}
    /\ key_events = <<>>
    /\ judgement_events = <<>>
    /\ main_ctl = 1
    /\ sliders = <<>>
    /\ keys_down = {}
    /\ actl_timestamp = [c \in Ctls |-> 0]

\* AudioDevice::init has opened a stream of the device rate
DeviceOpened == audio_device = Some([sample_rate |-> device_rate])

FrameInit ==
    /\ FrameStart
    /\ beatmap \in Beatmaps
    /\ device_rate \in DeviceRates
    /\ DeviceOpened

\* the audio thread before the first callback: nothing sent, no source
AudioIdle ==
    /\ audio_queue = <<>>
    /\ source = None
    /\ data = <<>>
    /\ cb_pc = "idle"
    /\ buf_len = 0
    /\ mix = <<>>
    /\ plays = 0
    /\ stream_frames = 0
    /\ stream_failed = FALSE
    /\ counter_at_accept = 0
    /\ mix_len = 0

Init ==
    /\ FrameInit
    /\ AudioIdle
    /\ UnitIdle

\* First: Time<Real> is updated and the events of the last frame are gone
begin_frame ==
    /\ pc = "first"
    /\ \E d \in Deltas :
        /\ rhythm_elapsed + d <= MaxTime
        /\ real_delta' = d
    /\ pc' = "spawn"
    /\ UNCHANGED <<rhythm, rhythm_elapsed, beatmap, instanced, loads, lanes, notes,
                   added_notes, key_events, judgement_events, main_ctl, device_rate,
                   actl_timestamp>>
    /\ UNCHANGED audio_vars
    /\ UNCHANGED unit_vars
    /\ UNCHANGED sld_vars

\* the application despawns the beatmap entity with its lanes and notes and
\* spawns a BeatmapBundle (with a fresh AudioControl) for another beatmap
load_beatmap ==
    /\ pc = "first"
    /\ instanced
    /\ loads < MaxLoads
    /\ loads' = loads + 1
    /\ beatmap' \in Beatmaps
    /\ instanced' = FALSE
    /\ lanes' = <<>>
    /\ notes' = <<>>
    /\ added_notes' = {}
    /\ judgement_events' = <<>>
    /\ main_ctl' = main_ctl + 1
    \* the control state of the despawned entity is dropped with it
    /\ actl_timestamp' = [actl_timestamp EXCEPT ![main_ctl] = 0]
    /\ UNCHANGED <<pc, real_delta, rhythm, rhythm_elapsed, key_events, device_rate>>
    /\ UNCHANGED audio_vars
    /\ UNCHANGED unit_vars
    /\ UNCHANGED sld_vars

\* spawn_beatmap, for a beatmap entity without BeatmapInstance whose asset
\* is loaded
spawn_beatmap ==
    /\ pc = "spawn"
    /\ ~instanced
    /\ rhythm' = Rhythm_new(beatmap.bpm, beatmap.offset)
    /\ rhythm_elapsed' = 0
    /\ lanes' = [i \in 0..(beatmap.lane_count - 1) |-> Lane_new(i)]
    /\ notes' = [n \in { k \in DOMAIN beatmap.notes :
                            beatmap.notes[k].lane < beatmap.lane_count } |->
                    Note_from(beatmap.notes[n])]
    /\ added_notes' = DOMAIN notes'
    /\ instanced' = TRUE
    /\ pc' = "clock"
    /\ UNCHANGED <<real_delta, beatmap, loads, key_events, judgement_events,
                   main_ctl, device_rate, actl_timestamp>>
    /\ UNCHANGED audio_vars
    /\ UNCHANGED unit_vars
    /\ UNCHANGED sld_vars

\* spawn_beatmap finds nothing to do: every beatmap entity is instanced, or
\* the asset is not loaded yet
spawn_beatmap_idle ==
    /\ pc = "spawn"
    /\ pc' = "clock"
    /\ UNCHANGED <<real_delta, rhythm, rhythm_elapsed, beatmap, instanced, loads,
                   lanes, notes, added_notes, key_events, judgement_events,
                   main_ctl, device_rate, actl_timestamp>>
    /\ UNCHANGED audio_vars
    /\ UNCHANGED unit_vars
    /\ UNCHANGED sld_vars

\* the device timestamp interpolate_rhythm_clock reads
device_timestamp(rate, counter) == sample_duration(rate) * counter

\* the interpolating branch adding an eighth of the device timestamp instead
\* of an eighth of the gap
interpolate_no_gap(elapsed, delta, timestamp) ==
    (elapsed + delta) + timestamp \div 8

\* the interpolating branch: elapsed + delta, then an eighth of the way to the
\* device timestamp, converted back to a Duration
interpolate(elapsed, delta, timestamp) ==
    (7 * (elapsed + delta) + timestamp) \div 8

\* advance_by without the check that the position moved forward
advance_elapsed_signed(elapsed, last_position, new_position) ==
    elapsed + (new_position - last_position)

\* Time::advance_by, called when the position moved forward
advance_elapsed(elapsed, last_position, new_position) ==
    IF new_position >= last_position
    THEN elapsed + (new_position - last_position)
    ELSE elapsed

\* a raw clock that starts interpolating on every tick
source_has_elapsed_always(last_timestamp, timestamp) == TRUE

\* `last_timestamp != rhythm_ctx.timestamp`: the source has elapsed
source_has_elapsed(last_timestamp, timestamp) == last_timestamp # timestamp

interpolate_rhythm_clock ==
    /\ pc \in {"clock", "clock_keys"}
    /\ LET last_timestamp == rhythm.timestamp
           last_position == rhythm.position
           timestamp == device_timestamp(device_rate, actl_timestamp[main_ctl])
           new_position ==
               IF rhythm.is_interpolating
               THEN interpolate(rhythm_elapsed, real_delta, timestamp)
               ELSE timestamp
       IN  /\ rhythm' = [rhythm EXCEPT
                            !.timestamp = timestamp,
                            !.position = new_position,
                            !.is_interpolating =
                                @ \/ source_has_elapsed(last_timestamp, timestamp)]
           /\ rhythm_elapsed' = advance_elapsed(rhythm_elapsed, last_position, new_position)
    /\ pc' = IF pc = "clock" THEN "input" ELSE "judge"
    /\ UNCHANGED <<real_delta, beatmap, instanced, loads, lanes, notes, added_notes,
                   key_events, judgement_events, main_ctl, device_rate,
                   actl_timestamp>>
    /\ UNCHANGED audio_vars
    /\ UNCHANGED unit_vars
    /\ UNCHANGED sld_vars

\* the sequences of at most n elements of S
SeqsUpTo(S, n) == UNION { [1..k -> S] : k \in 0..n }

\* the lanes whose key is down after the keyboard inputs ks, each a lane
\* with Down for ButtonState::Pressed and Up for ButtonState::Released
RECURSIVE KeysAfter(_, _)
KeysAfter(down, ks) ==
    IF ks = <<>> THEN down
    ELSE KeysAfter(IF Head(ks)[2] = "Down" THEN down \cup {Head(ks)[1]}
                   ELSE down \ {Head(ks)[1]},
                   Tail(ks))

\* create_key_events_keyboard: PreUpdate does not order it against
\* interpolate_rhythm_clock, so it stamps the events with the position of
\* either side of the tick
create_key_events_keyboard ==
    /\ pc \in {"clock", "input"}
    /\ \E ks \in SeqsUpTo((DOMAIN lanes) \X KeyEventTypes, MaxKeys) :
        /\ key_events' = [i \in DOMAIN ks |-> KeyEvent(position(rhythm), ks[i][1], ks[i][2])]
        /\ keys_down' = KeysAfter(keys_down, ks)
    /\ UNCHANGED sliders
    /\ pc' = IF pc = "clock" THEN "clock_keys" ELSE "judge"
    /\ UNCHANGED <<real_delta, rhythm, rhythm_elapsed, beatmap, instanced, loads,
                   lanes, notes, added_notes, judgement_events,
                   main_ctl, device_rate, actl_timestamp>>
    /\ UNCHANGED audio_vars
    /\ UNCHANGED unit_vars

create_judgements ==
    /\ pc = "judge"
    /\ LET res == create_judgements_from(1, key_events, lanes, notes,
                                         judgement_events, rhythm, instanced)
       IN  /\ lanes' = res.lanes
           /\ judgement_events' = res.events
    /\ key_events' = <<>>                    \* the EventReader has read them
    /\ pc' = "dropped"
    /\ UNCHANGED <<real_delta, rhythm, rhythm_elapsed, beatmap, instanced, loads,
                   notes, added_notes, main_ctl,
                   device_rate, actl_timestamp>>
    /\ UNCHANGED audio_vars
    /\ UNCHANGED unit_vars
    /\ UNCHANGED sld_vars

create_dropped_judgements ==
    /\ pc = "dropped"
    /\ lanes' = [l \in DOMAIN lanes |->
                    IF instanced THEN dropped_in_lane(lanes[l], notes, rhythm).lane
                    ELSE lanes[l]]
    /\ judgement_events' = judgement_events \o
            (IF instanced THEN dropped_events(0, lanes, notes, rhythm) ELSE <<>>)
    /\ pc' = "post"
    /\ UNCHANGED <<real_delta, rhythm, rhythm_elapsed, beatmap, instanced, loads,
                   notes, added_notes, key_events, main_ctl,
                   device_rate, actl_timestamp>>
    /\ UNCHANGED audio_vars
    /\ UNCHANGED unit_vars
    /\ UNCHANGED sld_vars

\* reorder_notes: the Added<Note> entities are pushed onto their lanes in the
\* order the query yields them, and every lane that got one is sorted
reorder_notes ==
    /\ pc = "post"
    /\ \E order \in Perms(added_notes) :
        LET pushed == [l \in DOMAIN lanes |->
                        lanes[l].notes \o
                        SelectSeq(order, LAMBDA e : notes[e].lane = l)]
            to_sort == { notes[e].lane : e \in added_notes } \cap DOMAIN lanes
        IN  \E sorted \in [to_sort -> UNION { sort_unstable_by_beat(pushed[l], notes) :
                                                l \in to_sort }] :
                /\ \A l \in to_sort : sorted[l] \in sort_unstable_by_beat(pushed[l], notes)
                /\ lanes' = [l \in DOMAIN lanes |->
                                IF l \in to_sort
                                THEN [lanes[l] EXCEPT !.notes = sorted[l]]
                                ELSE lanes[l]]
    /\ added_notes' = {}
    /\ pc' = "first"
    /\ UNCHANGED <<real_delta, rhythm, rhythm_elapsed, beatmap, instanced, loads,
                   notes, key_events, judgement_events, main_ctl,
                   device_rate, actl_timestamp>>
    /\ UNCHANGED audio_vars
    /\ UNCHANGED unit_vars
    /\ UNCHANGED sld_vars

\* the audio thread, as the logic thread sees it: a callback of the stream of
\* the main track adds the frames it produced to the counter.  The logic
\* thread loads the counter only in interpolate_rhythm_clock, so the callbacks
\* that ran since the last load are placed at the frame boundary.
audio_callback_counts ==
    /\ pc = "first"
    /\ instanced
    /\ audio_device # None              \* the stream exists
    /\ \E samples \in Chunks :
        /\ device_timestamp(device_rate, actl_timestamp[main_ctl] + samples) <= MaxTime
        /\ actl_timestamp' = [actl_timestamp EXCEPT ![main_ctl] = @ + samples]
    /\ UNCHANGED logic_vars
    /\ UNCHANGED audio_vars
    /\ UNCHANGED unit_vars

\* a system spawns a Note of any kind as a child of a lane of the instanced
\* beatmap; its commands are applied before PostUpdate runs
spawn_note ==
    /\ pc = "first"
    /\ instanced
    /\ Cardinality(DOMAIN notes) < Len(beatmap.notes) + MaxSpawned
    /\ rhythm_elapsed <= MaxSpawnTime
    /\ \E beat \in SpawnBeats, kind \in SpawnKinds, l \in DOMAIN lanes :
        LET e == Cardinality(DOMAIN notes) + 1
        IN  /\ notes' = [n \in DOMAIN notes \cup {e} |->
                            IF n = e THEN Note_new(beat, kind, l) ELSE notes[n]]
            /\ added_notes' = added_notes \cup {e}
            \* the end note of a slider carries a Slider component
            /\ sliders' = IF kind = "SliderEnd"
                          THEN [n \in DOMAIN sliders \cup {e} |->
                                    IF n = e THEN Slider_default ELSE sliders[n]]
                          ELSE sliders
    /\ UNCHANGED keys_down
    /\ UNCHANGED <<pc, real_delta, rhythm, rhythm_elapsed, beatmap, instanced, loads,
                   lanes, key_events, judgement_events, main_ctl, device_rate,
                   actl_timestamp>>
    /\ UNCHANGED audio_vars
    /\ UNCHANGED unit_vars

Next ==
    \/ begin_frame
    \/ load_beatmap
    \/ spawn_beatmap
    \/ spawn_beatmap_idle
    \/ interpolate_rhythm_clock
    \/ create_key_events_keyboard
    \/ create_judgements
    \/ create_dropped_judgements
    \/ reorder_notes
    \/ audio_callback_counts

Spec == Init /\ [][Next]_vars

\* a beatmap of one empty lane; the notes are spawned into the lane by a
\* system, in one or several frames
SpawnInit ==
    /\ FrameStart
    /\ AudioIdle
    /\ UnitIdle
    /\ beatmap = [lane_count |-> 1, bpm |-> 300, offset |-> 0, notes |-> <<>>]
    /\ device_rate = 5
    /\ DeviceOpened

SpawnNext ==
    \/ begin_frame
    \/ spawn_note
    \/ spawn_beatmap
    \/ spawn_beatmap_idle
    \/ interpolate_rhythm_clock
    \/ create_key_events_keyboard
    \/ create_judgements
    \/ create_dropped_judgements
    \/ reorder_notes
    \/ audio_callback_counts

SpawnSpec == SpawnInit /\ [][SpawnNext]_vars

(***************************************************************************)
(* The audio thread                                                        *)
(***************************************************************************)
MaxPlays == 2       \* calls of AudioDevice::play

AudioInit ==
    /\ Init
    /\ beatmap = CHOOSE b \in Beatmaps : b.lane_count = 1

\* a tail filled with something that is not the equilibrium
Silence_noise(n) == [i \in 1..n |-> EQUILIBRIUM + 1]

\* `*data = Sample::EQUILIBRIUM` for n elements
Silence(n) == [i \in 1..n |-> EQUILIBRIUM]

\* `actl.timestamp.store(0, Ordering::Release)`
reset_timestamp_keep(ts, actl) == ts

reset_timestamp(ts, actl) == [ts EXCEPT ![actl] = 0]

\* `actl.timestamp.fetch_add(mix_len as u64 / CHANNEL_COUNT as u64, ..)`
count_frames_store(ts, actl, n) == [ts EXCEPT ![actl] = n \div CHANNEL_COUNT]

\* the frames added to the counter of every control state
count_frames_all(ts, actl, n) == [c \in DOMAIN ts |-> ts[c] + n \div CHANNEL_COUNT]

count_frames(ts, actl, n) == [ts EXCEPT ![actl] = @ + n \div CHANNEL_COUNT]

\* a pair sent whether or not the device has a state
play_without_device(device, queue, asset, actl) ==
    Append(queue, [decoder |-> OggDecoder_new(asset), actl |-> actl])

\* the channel after AudioDevice::play: with a state, a decoder is made for
\* the asset and sent with the control state; without one nothing is done
play(device, queue, asset, actl) ==
    IF device # None
    THEN Append(queue, [decoder |-> OggDecoder_new(asset), actl |-> actl])
    ELSE queue

\* a call of AudioDevice::play
AudioDevice_play ==
    /\ plays < MaxPlays
    /\ plays' = plays + 1
    /\ \E asset \in AudioAssets, actl \in Ctls :
        audio_queue' = play(audio_device, audio_queue, asset, actl)
    /\ UNCHANGED <<audio_device, source, data, cb_pc, buf_len, mix, stream_frames, stream_failed,
                   counter_at_accept, mix_len, actl_timestamp>>
    /\ UNCHANGED logic_vars
    /\ UNCHANGED unit_vars

\* the end of a callback whose source (src, after its sample call) gave
\* `samples` or failed: the frames are counted and the tail is silenced
finish_callback(src, ts, len, ok, samples, frames, failed) ==
    LET n == IF ok THEN Len(samples) ELSE 0
    IN  /\ source' = src
        /\ mix_len' = n
        /\ actl_timestamp' =
                IF src = None THEN ts ELSE count_frames(ts, src[1].actl, n)
        /\ data' = SubSeq(samples, 1, n) \o Silence(len - n)
        /\ stream_frames' = frames + n \div CHANNEL_COUNT
        /\ stream_failed' = (failed \/ ~ok)
        /\ cb_pc' = "idle"
        /\ buf_len' = 0
        /\ mix' = <<>>

\* the newest message taken instead of the oldest
recv_pair_newest(queue) == queue[Len(queue)]

\* the Ok value of `audio_queue.try_recv()` on a channel that holds messages
recv_pair(queue) == Head(queue)

\* the callback of audio_streamer on a buffer of len samples, up to the
\* return of a passthrough sample() or the entry of the resampling loop
audio_streamer ==
    /\ audio_device # None                  \* the stream exists
    /\ cb_pc = "idle"
    /\ \E len \in BufLens :
        LET recv == audio_queue # <<>>
            pair == recv_pair(audio_queue)
            made == Resampler_new(pair.decoder, device_rate)
            ts == IF recv THEN reset_timestamp(actl_timestamp, pair.actl)
                  ELSE actl_timestamp
            src == IF recv THEN Some([resampler |-> made.value, actl |-> pair.actl])
                   ELSE source
            frames == IF recv THEN 0 ELSE stream_frames
            failed == IF recv THEN FALSE ELSE stream_failed
        IN  /\ audio_queue' = IF recv THEN Tail(audio_queue) ELSE audio_queue
            /\ counter_at_accept' =
                    IF recv THEN actl_timestamp[pair.actl] ELSE counter_at_accept
            /\ IF recv /\ made.panic
               THEN \* `.unwrap()` or an assert of Resampler::new unwinds
                    /\ cb_pc' = "panicked"
                    /\ actl_timestamp' = ts
                    /\ UNCHANGED <<source, data, buf_len, mix, stream_frames,
                                   stream_failed, mix_len>>
               ELSE IF src = None
               THEN finish_callback(src, ts, len, TRUE, <<>>, frames, failed)
               ELSE IF src[1].resampler.state = None
               THEN \* passthrough: inner.sample(buf)
                    LET r == OggDecoder_sample(src[1].resampler.inner, len)
                    IN  finish_callback(
                            Some([src[1] EXCEPT !.resampler.inner = r.inner]),
                            ts, len, r.ok, r.samples, frames, failed)
               ELSE \* the `while buf_cursor < buf.len()` loop is entered
                    /\ cb_pc' = "sampling"
                    /\ buf_len' = len
                    /\ mix' = <<>>
                    /\ source' = src
                    /\ actl_timestamp' = ts
                    /\ stream_frames' = frames
                    /\ stream_failed' = failed
                    /\ UNCHANGED <<data, mix_len>>
    /\ UNCHANGED <<plays, audio_device>>
    /\ UNCHANGED logic_vars
    /\ UNCHANGED unit_vars

\* one iteration of the loop of Resampler::sample in resampling mode, with
\* the rest of the callback when the loop is left
resampler_sample_step ==
    /\ cb_pc = "sampling"
    /\ \E padded \in BOOLEAN :
        LET rs == source[1].resampler
            r == next_chunk(buf_len - Len(mix), rs.inner, rs.state[1],
                            rs.inner.channels, padded)
            src == Some([source[1] EXCEPT !.resampler.inner = r.inner,
                                          !.resampler.state = Some(r.state)])
            buf == mix \o r.samples
        IN  IF r.panic
            THEN \* `buffer.drain(0..in_len)` past the end of the buffer
                 /\ cb_pc' = "panicked"
                 /\ source' = src
                 /\ UNCHANGED <<actl_timestamp, data, buf_len, mix, stream_frames,
                                stream_failed, mix_len>>
            ELSE IF ~r.ok
            THEN finish_callback(src, actl_timestamp, buf_len, FALSE, <<>>,
                                 stream_frames, stream_failed)
            ELSE IF Len(buf) >= buf_len
            THEN finish_callback(src, actl_timestamp, buf_len, TRUE, buf,
                                 stream_frames, stream_failed)
            ELSE /\ mix' = buf
                 /\ source' = src
                 /\ UNCHANGED <<actl_timestamp, data, cb_pc, buf_len, stream_frames,
                                stream_failed, mix_len>>
    /\ UNCHANGED <<audio_device, audio_queue, plays, counter_at_accept>>
    /\ UNCHANGED logic_vars
    /\ UNCHANGED unit_vars

AudioNext ==
    \/ AudioDevice_play
    \/ audio_streamer
    \/ resampler_sample_step

AudioSpec == AudioInit /\ [][AudioNext]_vars

(***************************************************************************)
(* The application with or without an output device                        *)
(***************************************************************************)
\* setup_sound_device: the state is set only when the host has a default
\* output device and AudioDevice::init returns Ok
setup_sound_device(has_device, init_ok, rate) ==
    IF has_device /\ init_ok THEN Some([sample_rate |-> rate]) ELSE None

\* the song of the beatmap
MainTrackAsset == CHOOSE a \in AudioAssets : a.sample_rate = 10 /\ a.channels = 2
                                              /\ \A i \in DOMAIN a.packets : ~a.packets[i].err

DeviceInit ==
    /\ FrameStart
    /\ AudioIdle
    /\ UnitIdle
    /\ beatmap = CHOOSE b \in Beatmaps : b.lane_count = 1
    /\ device_rate = 10
    /\ \E has_device \in BOOLEAN, init_ok \in BOOLEAN :
            audio_device = setup_sound_device(has_device, init_ok, device_rate)

\* the asset server has loaded the song of the main track
song_asset_loads ==
    /\ pc = "first"
    /\ ~song_loaded
    /\ song_loaded' = TRUE
    /\ UNCHANGED <<loaded_audio, play_result>>
    /\ UNCHANGED <<dec_vars, beat_vars, cfg_vars, ord_vars, trk_vars, pos_vars, con_vars>>
    /\ UNCHANGED logic_vars
    /\ UNCHANGED actl_timestamp
    /\ UNCHANGED audio_vars

\* the query that plays the entity whether or not it has LoadedAudio
wants_play_always(has_loaded_audio, asset_loaded) == asset_loaded

\* the entity is matched by `Without<LoadedAudio>` and
\* `audio_sources.get(audio_source)` is Some
wants_play(has_loaded_audio, asset_loaded) == ~has_loaded_audio /\ asset_loaded

\* AudioDevice::play as start_spawned_audio calls it: with a device state,
\* OggDecoder::new fails on a file that is no ogg stream and play returns
\* the error at the `?`
play_result_of(device, new_ok) == IF device # None /\ ~new_ok THEN "err" ELSE "ok"

\* the body of start_spawned_audio for the main track entity: the calls of
\* play it makes, the channel, the marker and the result afterwards
start_spawned_audio_on(has_loaded_audio, asset_loaded, device, queue, result, new_ok) ==
    IF wants_play(has_loaded_audio, asset_loaded)
    THEN [calls |-> 1,
          queue |-> IF play_result_of(device, new_ok) = "ok"
                    THEN play(device, queue, MainTrackAsset, main_ctl)
                    ELSE queue,
          loaded_audio |-> TRUE,
          result |-> Some(play_result_of(device, new_ok))]
    ELSE [calls |-> 0, queue |-> queue, loaded_audio |-> has_loaded_audio,
          result |-> result]

\* start_spawned_audio, in the Update of a frame
start_spawned_audio ==
    /\ pc = "post"
    /\ plays < MaxPlays
    /\ \E new_ok \in BOOLEAN :
        LET r == start_spawned_audio_on(loaded_audio, song_loaded, audio_device,
                                        audio_queue, play_result, new_ok)
        IN  /\ plays' = plays + r.calls
            /\ audio_queue' = r.queue
            /\ loaded_audio' = r.loaded_audio
            /\ play_result' = r.result
    /\ UNCHANGED song_loaded
    /\ UNCHANGED <<audio_device, source, data, cb_pc, buf_len, mix, stream_frames,
                   stream_failed, counter_at_accept, mix_len, actl_timestamp>>
    /\ UNCHANGED logic_vars
    /\ UNCHANGED <<dec_vars, beat_vars, cfg_vars, ord_vars, trk_vars, pos_vars, con_vars>>

\* the callbacks of the stream count for the main track once it was played
main_track_counts ==
    /\ plays > 0
    /\ audio_callback_counts

DeviceNext ==
    \/ begin_frame
    \/ song_asset_loads
    \/ spawn_beatmap
    \/ spawn_beatmap_idle
    \/ interpolate_rhythm_clock
    \/ create_key_events_keyboard
    \/ create_judgements
    \/ create_dropped_judgements
    \/ reorder_notes
    \/ start_spawned_audio
    \/ main_track_counts

DeviceSpec == DeviceInit /\ [][DeviceNext]_vars

(***************************************************************************)
(* An OggDecoder sampled on its own, with buffers of any size              *)
(***************************************************************************)
MaxPackets == 3     \* packets of a stream
MaxPacketLen == 3   \* samples of a packet

DecBufLens == {0, 2, 3}

\* the packets of the given lengths, their samples numbered in stream order
RECURSIVE NumberedPackets(_, _)
NumberedPackets(lens, first) ==
    IF lens = <<>> THEN <<>>
    ELSE <<Packet([i \in 1..Head(lens) |-> first + i - 1])>>
            \o NumberedPackets(Tail(lens), first + Head(lens))

\* ogg files that decode without error
DecoderAssets ==
    { [sample_rate |-> 10, channels |-> 2, packets |-> NumberedPackets(lens, 1)] :
        lens \in SeqsUpTo(0..MaxPacketLen, MaxPackets) }

DecoderInit ==
    /\ FrameInit
    /\ beatmap = CHOOSE b \in Beatmaps : b.lane_count = 1
    /\ device_rate = 10
    /\ AudioIdle
    /\ BeatIdle
    /\ ConfigIdle
    /\ SongIdle
    /\ ConsumeIdle
    /\ PositionIdle
    /\ TrackedIdle
    /\ OrderIdle
    /\ dec_asset \in DecoderAssets
    /\ decoder = OggDecoder_new(dec_asset)
    /\ decoded = <<>>
    /\ dec_ended = FALSE

\* a caller samples the decoder into a buffer of some length and keeps what
\* was returned
OggDecoder_sample_call ==
    /\ \E len \in DecBufLens :
        LET r == OggDecoder_sample(decoder, len)
        IN  /\ decoder' = r.inner
            /\ decoded' = IF r.ok THEN decoded \o r.samples ELSE decoded
            /\ dec_ended' = (dec_ended \/ (r.ok /\ Len(r.samples) < len))
    /\ UNCHANGED dec_asset
    /\ UNCHANGED beat_vars
    /\ UNCHANGED cfg_vars
    /\ UNCHANGED sng_vars
    /\ UNCHANGED con_vars
    /\ UNCHANGED pos_vars
    /\ UNCHANGED trk_vars
    /\ UNCHANGED ord_vars
    /\ UNCHANGED logic_vars
    /\ UNCHANGED actl_timestamp
    /\ UNCHANGED audio_vars

DecoderNext == OggDecoder_sample_call

DecoderSpec == DecoderInit /\ [][DecoderNext]_vars

(***************************************************************************)
(* A Time<Rhythm> asked for beat positions and beat numbers on its own,    *)
(* with durations in milliseconds                                          *)
(***************************************************************************)
MaxBeat == 4        \* beats asked for

Bpms == {60, 120, 170, 300}

OffsetsMs == {0, 570, 1000}

BeatInit ==
    /\ FrameStart
    /\ beatmap = CHOOSE b \in Beatmaps : b.lane_count = 1
    /\ device_rate = 10
    /\ DeviceOpened
    /\ AudioIdle
    /\ DecoderIdle
    /\ ConfigIdle
    /\ SongIdle
    /\ ConsumeIdle
    /\ PositionIdle
    /\ TrackedIdle
    /\ OrderIdle
    /\ \E bpm \in Bpms, offset \in OffsetsMs :
            clock = Rhythm_new_in(MillisPerSecond, bpm, offset)
    /\ beat_in = None
    /\ beat_out = None

\* the clock comes to stand at the scheduled position of a beat
clock_at_beat_position ==
    /\ \E beat \in 0..MaxBeat :
        /\ clock' = [clock EXCEPT !.position = beat_position(clock, beat)]
        /\ beat_in' = Some(beat)
    /\ beat_out' = None
    /\ UNCHANGED dec_vars
    /\ UNCHANGED cfg_vars
    /\ UNCHANGED sng_vars
    /\ UNCHANGED con_vars
    /\ UNCHANGED pos_vars
    /\ UNCHANGED trk_vars
    /\ UNCHANGED ord_vars
    /\ UNCHANGED logic_vars
    /\ UNCHANGED actl_timestamp
    /\ UNCHANGED audio_vars

\* a system reads beat_number()
read_beat_number ==
    /\ beat_in # None
    /\ beat_out' = Some(beat_number(clock))
    /\ UNCHANGED <<clock, beat_in>>
    /\ UNCHANGED dec_vars
    /\ UNCHANGED cfg_vars
    /\ UNCHANGED sng_vars
    /\ UNCHANGED con_vars
    /\ UNCHANGED pos_vars
    /\ UNCHANGED trk_vars
    /\ UNCHANGED ord_vars
    /\ UNCHANGED logic_vars
    /\ UNCHANGED actl_timestamp
    /\ UNCHANGED audio_vars

BeatNext ==
    \/ clock_at_beat_position
    \/ read_beat_number

BeatSpec == BeatInit /\ [][BeatNext]_vars

(***************************************************************************)
(* A TrackedSource over an OggDecoder, sampled and sought on its own; the  *)
(* stream can hold packets that fail to decode                             *)
(***************************************************************************)
MaxSeeks == 1       \* seek calls

SeekPositions == {0, 3}

\* the packets of the given lengths with their samples numbered in stream
\* order, a length of -1 standing for a packet that fails to decode
RECURSIVE NumberedStream(_, _)
NumberedStream(lens, first) ==
    IF lens = <<>> THEN <<>>
    ELSE IF Head(lens) < 0 THEN <<BadPacket>> \o NumberedStream(Tail(lens), first)
    ELSE <<Packet([i \in 1..Head(lens) |-> first + i - 1])>>
            \o NumberedStream(Tail(lens), first + Head(lens))

TrackedAssets ==
    { [sample_rate |-> 10, channels |-> 2, packets |-> NumberedStream(lens, 1)] :
        lens \in SeqsUpTo((-1)..MaxPacketLen, MaxPackets) }

TrackedInit ==
    /\ FrameStart
    /\ beatmap = CHOOSE b \in Beatmaps : b.lane_count = 1
    /\ device_rate = 10
    /\ DeviceOpened
    /\ AudioIdle
    /\ DecoderIdle
    /\ BeatIdle
    /\ ConfigIdle
    /\ SongIdle
    /\ ConsumeIdle
    /\ PositionIdle
    /\ OrderIdle
    /\ trk_asset \in TrackedAssets
    /\ tracked = TrackedSource_new(OggDecoder_new(trk_asset))
    /\ trk_op = "new"
    /\ trk_from = 1
    /\ seek_base = 0
    /\ sampled_since = 0
    /\ seeks = 0

\* a caller samples the source into a buffer of some length
TrackedSource_sample_call ==
    /\ \E len \in DecBufLens :
        LET r == TrackedSource_sample(tracked, len)
        IN  /\ tracked' = r.source
            /\ trk_op' = IF r.ok THEN "sample" ELSE "sample_err"
            /\ sampled_since' = IF r.ok THEN sampled_since + Len(r.samples)
                                 ELSE sampled_since
    /\ UNCHANGED <<trk_asset, trk_from, seek_base, seeks>>
    /\ UNCHANGED <<dec_vars, beat_vars, cfg_vars, ord_vars, pos_vars, con_vars, sng_vars>>
    /\ UNCHANGED logic_vars
    /\ UNCHANGED actl_timestamp
    /\ UNCHANGED audio_vars

\* a caller seeks the source: the library fails or puts the stream at the
\* packet that starts some page of the file
TrackedSource_seek_call ==
    /\ seeks < MaxSeeks
    /\ seeks' = seeks + 1
    /\ \E pos \in SeekPositions, seek_ok \in BOOLEAN,
          k \in 1..(Len(trk_asset.packets) + 1) :
        LET stream == SubSeq(trk_asset.packets, k, Len(trk_asset.packets))
            r == TrackedSource_seek(tracked, pos, seek_ok, stream)
        IN  /\ tracked' = r.source
            /\ trk_op' = IF r.ok THEN "seek" ELSE "seek_err"
            /\ trk_from' = IF r.ok THEN k ELSE 0
            /\ seek_base' = IF r.ok THEN pos ELSE seek_base
            /\ sampled_since' = IF r.ok THEN 0 ELSE sampled_since
    /\ UNCHANGED trk_asset
    /\ UNCHANGED <<dec_vars, beat_vars, cfg_vars, ord_vars, pos_vars, con_vars, sng_vars>>
    /\ UNCHANGED logic_vars
    /\ UNCHANGED actl_timestamp
    /\ UNCHANGED audio_vars

TrackedNext ==
    \/ TrackedSource_sample_call
    \/ TrackedSource_seek_call

TrackedSpec == TrackedInit /\ [][TrackedNext]_vars

(***************************************************************************)
(* AudioControl::position read while the callback counts frames, at the    *)
(* real sample rates and in nanoseconds                                    *)
(***************************************************************************)
MaxBlocks == 80     \* callbacks that have counted frames

\* frames a callback adds to the counter
BlockFrames == 1024

NANOS_PER_SEC == 1000000000

PositionRates == {44100, DEFAULT_SAMPLE_RATE}

\* `x as u32`: every counter of the model is below 2^31
as_u32(x) == x

\* Duration::from_nanos, a Duration being its whole nanoseconds
Duration_from_nanos(nanos) == nanos

\* `1_000_000_000 / self.sample_rate as u64`
per_sample_nanos(sample_rate) == NANOS_PER_SEC \div sample_rate

\* AudioControl::position
AudioControl_position(sample_rate, timestamp) ==
    Duration_from_nanos(per_sample_nanos(sample_rate)) * as_u32(timestamp)

PositionInit ==
    /\ FrameStart
    /\ beatmap = CHOOSE b \in Beatmaps : b.lane_count = 1
    /\ device_rate = 10
    /\ DeviceOpened
    /\ AudioIdle
    /\ DecoderIdle
    /\ BeatIdle
    /\ ConfigIdle
    /\ SongIdle
    /\ ConsumeIdle
    /\ OrderIdle
    /\ TrackedIdle
    /\ pos_rate \in PositionRates
    /\ pos_counter = 0
    /\ pos_result = None

\* the callback adds the frames it produced to the counter
timestamp_fetch_add ==
    /\ pos_counter < MaxBlocks * BlockFrames
    /\ pos_counter' = pos_counter + BlockFrames
    /\ UNCHANGED <<pos_rate, pos_result>>
    /\ UNCHANGED <<dec_vars, beat_vars, cfg_vars, ord_vars, trk_vars, con_vars, sng_vars>>
    /\ UNCHANGED logic_vars
    /\ UNCHANGED actl_timestamp
    /\ UNCHANGED audio_vars

\* the logic thread reads the position
AudioControl_position_call ==
    /\ pos_result' = Some([timestamp |-> pos_counter,
                            position |-> AudioControl_position(pos_rate, pos_counter)])
    /\ UNCHANGED <<pos_rate, pos_counter>>
    /\ UNCHANGED <<dec_vars, beat_vars, cfg_vars, ord_vars, trk_vars, con_vars, sng_vars>>
    /\ UNCHANGED logic_vars
    /\ UNCHANGED actl_timestamp
    /\ UNCHANGED audio_vars

PositionNext ==
    \/ timestamp_fetch_add
    \/ AudioControl_position_call

PositionSpec == PositionInit /\ [][PositionNext]_vars

(***************************************************************************)
(* consume_buffer handing out the blocks a resampler produces, in buffers  *)
(* of whole frames                                                         *)
(***************************************************************************)
MaxBlockFrames == 3     \* frames of a channel of to_buffer
MaxConsumeFrames == 2   \* frames of a buffer given to consume_buffer
MaxProduced == 6        \* frames produced in all

ConsumeChannels == {1, CHANNEL_COUNT}

\* output_buffer_allocate(true): every channel filled with zeros
output_buffer_allocate(channels, frames) ==
    [c \in 1..channels |-> [f \in 1..frames |-> 0]]

\* the frames a processing step writes: numbered, so that no two samples
\* of a run are equal
ProducedBlock(channels, first, out_len) ==
    [c \in 1..channels |-> [f \in 1..out_len |-> to_f32(10 * (first + f) + c)]]

\* the end of next_chunk before its consume_buffer: the processing step
\* has written out_len frames at the front of every channel of to_buffer
\* and `state.to_buffer_rem = out_len * channels`
process_into_to_buffer(state, block) ==
    LET channels == Len(state.to_buffer)
        out_len == Len(block[1])
    IN  [state EXCEPT
            !.to_buffer = [c \in 1..channels |->
                block[c] \o SubSeq(state.to_buffer[c], out_len + 1,
                                    Len(state.to_buffer[c]))],
            !.to_buffer_rem = out_len * channels]

ConsumeInit ==
    /\ FrameStart
    /\ beatmap = CHOOSE b \in Beatmaps : b.lane_count = 1
    /\ device_rate = 10
    /\ DeviceOpened
    /\ AudioIdle
    /\ DecoderIdle
    /\ BeatIdle
    /\ ConfigIdle
    /\ SongIdle
    /\ OrderIdle
    /\ TrackedIdle
    /\ PositionIdle
    /\ \E channels \in ConsumeChannels, frames \in 1..MaxBlockFrames :
            con_state = [to_buffer |-> output_buffer_allocate(channels, frames),
                         to_buffer_rem |-> 0]
    /\ con_block = [c \in 1..Len(con_state.to_buffer) |-> <<>>]
    /\ con_out = <<>>
    /\ con_produced = 0

\* next_chunk with nothing left of the last block: the next one is produced
produce_block ==
    /\ con_state.to_buffer_rem = 0
    /\ \E out_len \in 0..Len(con_state.to_buffer[1]) :
        LET block == ProducedBlock(Len(con_state.to_buffer), con_produced, out_len)
        IN  /\ con_produced + out_len <= MaxProduced
            /\ con_produced' = con_produced + out_len
            /\ con_state' = process_into_to_buffer(con_state, block)
            /\ con_block' = block
            /\ con_out' = <<>>
    /\ UNCHANGED <<dec_vars, beat_vars, cfg_vars, ord_vars, trk_vars, pos_vars, sng_vars>>
    /\ UNCHANGED logic_vars
    /\ UNCHANGED actl_timestamp
    /\ UNCHANGED audio_vars

\* consume_buffer on a buffer of some whole frames
consume_buffer_call ==
    /\ \E frames \in 1..MaxConsumeFrames :
        LET c == consume_buffer(frames * Len(con_state.to_buffer), con_state)
        IN  /\ con_state' = c.state
            /\ con_out' = con_out \o c.samples
    /\ UNCHANGED <<con_block, con_produced>>
    /\ UNCHANGED <<dec_vars, beat_vars, cfg_vars, ord_vars, trk_vars, pos_vars, sng_vars>>
    /\ UNCHANGED logic_vars
    /\ UNCHANGED actl_timestamp
    /\ UNCHANGED audio_vars

ConsumeNext ==
    \/ produce_block
    \/ consume_buffer_call

ConsumeSpec == ConsumeInit /\ [][ConsumeNext]_vars

(***************************************************************************)
(* AudioDevice::init choosing among the configurations of a device.  Rates *)
(* are in Hz; a u32 score is kept as its two 16-bit halves <<high, low>>,  *)
(* which order as the u32s do.                                             *)
(***************************************************************************)
MaxConfigs == 2     \* configurations a device supports

HALF_U32 == 65536

ConfigRates == {8000, 44100, 48000, 96000}

\* SupportedStreamConfigRange: channels, sample format and a range of rates
ConfigRanges ==
    { c \in [channels : {1, 2}, sample_format : {"I16", "F32"},
             min_sample_rate : ConfigRates, max_sample_rate : ConfigRates] :
        c.min_sample_rate <= c.max_sample_rate }

\* a u32 below 2^31 as its halves
u32(x) == <<x \div HALF_U32, x % HALF_U32>>

u32_less(a, b) == a[1] < b[1] \/ (a[1] = b[1] /\ a[2] < b[2])

\* `a - b` on u32 in a build without overflow checks: a - b, and
\* 2^32 - (b - a) when b is the larger
wrapping_sub(a, b) ==
    IF a >= b THEN u32(a - b)
    ELSE <<(HALF_U32 - 1) - ((b - a - 1) \div HALF_U32),
           (HALF_U32 - 1) - ((b - a - 1) % HALF_U32)>>

\* the closure of `.map` in init: the rate the range is taken at and its
\* score; `min_sample_rate - desired_sample_rate` overflows in the second
\* branch, which panics in a build with overflow checks and wraps otherwise
score_config(s, checked) ==
    LET desired_sample_rate == DEFAULT_SAMPLE_RATE
    IN  IF desired_sample_rate < s.min_sample_rate
        THEN [panic |-> FALSE, sample_rate |-> s.min_sample_rate,
              score |-> wrapping_sub(s.min_sample_rate, desired_sample_rate)]
        ELSE IF desired_sample_rate > s.max_sample_rate
        THEN [panic |-> checked /\ s.min_sample_rate < desired_sample_rate,
              sample_rate |-> s.max_sample_rate,
              score |-> wrapping_sub(s.min_sample_rate, desired_sample_rate)]
        ELSE [panic |-> FALSE, sample_rate |-> desired_sample_rate, score |-> u32(0)]

\* the two filters of init
is_wanted_config(s) == s.channels = CHANNEL_COUNT /\ s.sample_format = "I16"

\* the outcomes of the choice of init: a panic, Err when no configuration
\* is left, or the StreamerOptions of a configuration that sort_unstable_by
\* can put first
AudioDevice_init_choices(configs, checked) ==
    LET wanted == SelectSeq(configs, is_wanted_config)
        scored == [i \in DOMAIN wanted |-> score_config(wanted[i], checked)]
    IN  IF \E i \in DOMAIN scored : scored[i].panic
        THEN { [panic |-> TRUE, ok |-> FALSE, sample_rate |-> 0] }
        ELSE IF wanted = <<>>
        THEN { [panic |-> FALSE, ok |-> FALSE, sample_rate |-> 0] }
        ELSE { [panic |-> FALSE, ok |-> TRUE, sample_rate |-> scored[i].sample_rate] :
                i \in { k \in DOMAIN scored :
                          \A j \in DOMAIN scored :
                              ~u32_less(scored[j].score, scored[k].score) } }

ConfigInit ==
    /\ FrameStart
    /\ beatmap = CHOOSE b \in Beatmaps : b.lane_count = 1
    /\ device_rate = 10
    /\ audio_device = None
    /\ AudioIdle
    /\ DecoderIdle
    /\ BeatIdle
    /\ OrderIdle
    /\ TrackedIdle
    /\ PositionIdle
    /\ ConsumeIdle
    /\ SongIdle
    /\ supported_configs \in SeqsUpTo(ConfigRanges, MaxConfigs)
    /\ overflow_checks \in BOOLEAN
    /\ init_result = None

\* AudioDevice::init up to the choice of the StreamConfig
AudioDevice_init ==
    /\ init_result = None
    /\ \E r \in AudioDevice_init_choices(supported_configs, overflow_checks) :
            init_result' = Some(r)
    /\ UNCHANGED <<supported_configs, overflow_checks>>
    /\ UNCHANGED <<dec_vars, beat_vars, ord_vars, trk_vars, pos_vars, con_vars, sng_vars>>
    /\ UNCHANGED logic_vars
    /\ UNCHANGED actl_timestamp
    /\ UNCHANGED audio_vars

ConfigNext == AudioDevice_init

ConfigSpec == ConfigInit /\ [][ConfigNext]_vars

(***************************************************************************)
(* The notes of a beatmap file or of a lane sorted by beat, where a beat   *)
(* is an f32 that can be NaN                                               *)
(***************************************************************************)
MaxNotes == 3       \* notes of the file or the lane

\* the f32 NaN, kept as a number no beat is
NaN == -1

NoteBeats == {NaN, 0, 1, 2}

\* f32::partial_cmp
partial_cmp(a, b) ==
    IF a = NaN \/ b = NaN THEN None
    ELSE Some(IF a < b THEN "Less" ELSE IF a > b THEN "Greater" ELSE "Equal")

\* `sort_unstable_by(|a, b| a.partial_cmp(b).expect(..))`: a slice of fewer
\* than two elements is returned without a call of the comparator; in a
\* longer one every element is compared with another at least once, so the
\* expect panics when one of them is NaN.  Otherwise any order of the equal
\* elements can come out.
sort_unstable_by_partial_cmp(beats) ==
    IF /\ Len(beats) >= 2
       /\ \E i, j \in DOMAIN beats : i # j /\ partial_cmp(beats[i], beats[j]) = None
    THEN { [panic |-> TRUE, beats |-> <<>>] }
    ELSE { [panic |-> FALSE, beats |-> [i \in DOMAIN beats |-> beats[p[i]]]] :
            p \in { q \in Perms(DOMAIN beats) :
                        \A i, j \in DOMAIN beats :
                            i < j => partial_cmp(beats[q[i]], beats[q[j]]) # Some("Greater") } }

OrderInit ==
    /\ FrameStart
    /\ beatmap = CHOOSE b \in Beatmaps : b.lane_count = 1
    /\ device_rate = 10
    /\ DeviceOpened
    /\ AudioIdle
    /\ DecoderIdle
    /\ BeatIdle
    /\ ConfigIdle
    /\ SongIdle
    /\ ConsumeIdle
    /\ PositionIdle
    /\ TrackedIdle
    /\ note_beats \in SeqsUpTo(NoteBeats, MaxNotes)
    /\ sorted_in = "none"
    /\ sort_result = None

\* the notes are those of a beatmap file and BeatmapLoader::load sorts them
BeatmapLoader_load ==
    /\ sorted_in = "none"
    /\ sorted_in' = "load"
    /\ \E r \in sort_unstable_by_partial_cmp(note_beats) : sort_result' = Some(r)
    /\ UNCHANGED note_beats
    /\ UNCHANGED <<dec_vars, beat_vars, cfg_vars, trk_vars, pos_vars, con_vars, sng_vars>>
    /\ UNCHANGED logic_vars
    /\ UNCHANGED actl_timestamp
    /\ UNCHANGED audio_vars

\* the notes are those of a lane after reorder_notes has pushed the added
\* ones, and reorder_notes sorts the lane
reorder_notes_sort ==
    /\ sorted_in = "none"
    /\ sorted_in' = "reorder"
    /\ \E r \in sort_unstable_by_partial_cmp(note_beats) : sort_result' = Some(r)
    /\ UNCHANGED note_beats
    /\ UNCHANGED <<dec_vars, beat_vars, cfg_vars, trk_vars, pos_vars, con_vars, sng_vars>>
    /\ UNCHANGED logic_vars
    /\ UNCHANGED actl_timestamp
    /\ UNCHANGED audio_vars

OrderNext ==
    \/ BeatmapLoader_load
    \/ reorder_notes_sort

OrderSpec == OrderInit /\ [][OrderNext]_vars

(***************************************************************************)
(* Properties of the logic thread                                          *)
(***************************************************************************)
\* the lane entity a note entity is a child of
LaneOf(e) == lanes[notes[e].lane]

\* the 0-based index of a note entity in the note sequence of its lane
IndexInLane(e) ==
    CHOOSE i \in 0..Len(LaneOf(e).notes) :
        IF \E k \in DOMAIN LaneOf(e).notes : LaneOf(e).notes[k] = e
        THEN i < Len(LaneOf(e).notes) /\ LaneOf(e).notes[i + 1] = e
        ELSE i = Len(LaneOf(e).notes)

JudgedNotes == { judgement_events[i].note : i \in DOMAIN judgement_events }

IsMiss(ev) == ev.offset = None

IsHit(ev) == ev.offset # None

\* the sweep of the frame has run and the clock has not ticked since
AfterSweep == pc \in {"post", "first"}

\* the step is a tick of the rhythm clock
IsClockTick ==
    \/ pc = "clock" /\ pc' = "input"
    \/ pc = "clock_keys" /\ pc' = "judge"

\* the step installs a new Rhythm
IsReinit == pc = "spawn" /\ ~instanced /\ instanced'

\* C1: for a lane whose notes are fixed after reconciliation, no note gets
\* more than one JudgementEvent (hit or miss), and every judged note lies
\* below the cursor of its lane, where neither create_judgements nor
\* create_dropped_judgements looks again.
C1_AtMostOneJudgement ==
    /\ \A i, j \in DOMAIN judgement_events :
            i # j => judgement_events[i].note # judgement_events[j].note
    /\ \A e \in JudgedNotes : IndexInLane(e) < LaneOf(e).current_note

\* a frame in which create_judgements hit a note of a lane and the sweep
\* reported another note of that lane missed
C1_Witness ==
    /\ pc = "post"
    /\ \E i, j \in DOMAIN judgement_events :
        /\ IsHit(judgement_events[i])
        /\ IsMiss(judgement_events[j])
        /\ notes[judgement_events[i].note].lane = notes[judgement_events[j].note].lane

\* C2: once the sweep has run with the clock more than the window past a
\* note's scheduled position, a JudgementEvent has been sent for that note,
\* whatever key events arrived.
C2_LateNoteJudged ==
    AfterSweep =>
        \A l \in DOMAIN lanes : \A k \in DOMAIN lanes[l].notes :
            LET e == lanes[l].notes[k]
            IN  position(rhythm) - beat_position(rhythm, notes[e].beat) > NOTE_WINDOW
                    => e \in JudgedNotes

\* the sweep reported a note missed that no key press had hit, with the clock
\* more than the window past it
C2_Witness ==
    /\ pc = "post"
    /\ \E i \in DOMAIN judgement_events :
        /\ IsMiss(judgement_events[i])
        /\ position(rhythm)
              - beat_position(rhythm, notes[judgement_events[i].note].beat) > NOTE_WINDOW

\* C3: within a lane the JudgementEvents come in scheduled-beat order: no
\* event for a note follows an event for a note of a later beat.
C3_JudgedInBeatOrder ==
    \A i, j \in DOMAIN judgement_events :
        (/\ i < j
         /\ notes[judgement_events[i].note].lane = notes[judgement_events[j].note].lane)
            => notes[judgement_events[i].note].beat <= notes[judgement_events[j].note].beat

\* a hit followed by a miss, of two notes of different beats of one lane
C3_Witness ==
    \E i, j \in DOMAIN judgement_events :
        /\ i < j
        /\ IsHit(judgement_events[i])
        /\ IsMiss(judgement_events[j])
        /\ notes[judgement_events[i].note].lane = notes[judgement_events[j].note].lane
        /\ notes[judgement_events[i].note].beat < notes[judgement_events[j].note].beat

\* C4, as claimed: after every tick the position does not exceed the device
\* timestamp read in that tick plus the offset.
C4_NoOvershoot ==
    position(rhythm) <= rhythm.timestamp + rhythm.offset

\* C4, amended: a raw tick sets the position to the device timestamp; an
\* interpolating tick leaves it at most at the larger of the device timestamp
\* and the previous elapsed time plus the wall-clock delta (nothing clamps it
\* to the device timestamp).
C4_BoundedByBasis ==
    [][IsClockTick =>
        IF rhythm.is_interpolating
        THEN position(rhythm') <= Max(rhythm'.timestamp, rhythm_elapsed + real_delta)
        ELSE position(rhythm') = rhythm'.timestamp]_vars

\* an interpolating clock whose position is past device timestamp plus offset
C4_Witness ==
    /\ rhythm.is_interpolating
    /\ position(rhythm) > rhythm.timestamp + rhythm.offset

\* C5, as claimed: between re-initializations the position never decreases.
C5_PositionMonotonic ==
    [][~IsReinit => position(rhythm') >= position(rhythm)]_vars

\* C5, amended: between re-initializations Time<Rhythm>::elapsed never
\* decreases, and the position does not decrease on a tick of a raw clock or
\* on a tick whose device timestamp is not behind the previous elapsed time.
C5_ElapsedMonotonic ==
    [][~IsReinit =>
        /\ rhythm_elapsed' >= rhythm_elapsed
        /\ (IsClockTick /\ (~rhythm.is_interpolating \/ rhythm'.timestamp >= rhythm_elapsed))
              => position(rhythm') >= position(rhythm)]_vars

\* the position has fallen behind the elapsed time: some tick moved it back
C5_Witness ==
    /\ rhythm.is_interpolating
    /\ position(rhythm) < rhythm_elapsed

\* create_judgements is about to read one key-down event of a lane that has
\* a next note
KeyDownOnNextNote ==
    /\ pc = "judge"
    /\ instanced
    /\ Len(key_events) = 1
    /\ key_events[1].kind = "Down"
    /\ key_events[1].lane \in DOMAIN lanes
    /\ next_note(lanes[key_events[1].lane]) # None

\* the scheduled position of the next note of the key's lane, less the
\* timestamp of the key
KeyDownDistance ==
    beat_position(rhythm, notes[next_note(lanes[key_events[1].lane])[1]].beat)
        - key_events[1].timestamp

IsLate(e) == position(rhythm) - beat_position(rhythm, notes[e].beat) > NOTE_WINDOW

\* the length of the run of late notes that starts at the cursor of a lane
LateRun(lane) ==
    LET next == all_next_notes(lane)
    IN  CHOOSE k \in 0..Len(next) :
            /\ \A i \in 1..k : IsLate(next[i])
            /\ k < Len(next) => ~IsLate(next[k + 1])

\* the events sent in the step, and those of them for notes of lane l
NewEvents == SubSeq(judgement_events', Len(judgement_events) + 1, Len(judgement_events'))

NewEventsOf(l) == SelectSeq(NewEvents, LAMBDA ev : notes[ev.note].lane = l)

\* C15: a run of create_dropped_judgements at clock position P sends, for
\* every lane, a missed event for each note of the run that starts at the
\* cursor and whose scheduled positions are more than the window before P,
\* in order and for no other note, and moves the cursor on by the number of
\* events sent; the note then at the cursor is at most the window late.
C15_SweepMissesLateRun ==
    [][(pc = "dropped" /\ instanced) =>
        /\ IsPrefix(judgement_events, judgement_events')
        /\ \A l \in DOMAIN lanes :
            LET k == LateRun(lanes[l])
            IN  /\ NewEventsOf(l) =
                        [i \in 1..k |-> JudgementEvent(all_next_notes(lanes[l])[i], None)]
                /\ lanes'[l].current_note = lanes[l].current_note + k
                /\ lanes'[l].notes = lanes[l].notes
                /\ next_note(lanes'[l]) # None => ~IsLate(next_note(lanes'[l])[1])]_vars

\* the sweep has just reported a note missed and left the next note of the
\* lane, which is exactly the window late, at the cursor
C15_Witness ==
    /\ pc = "post"
    /\ judgement_events # <<>>
    /\ LET last == judgement_events[Len(judgement_events)]
           lane == LaneOf(last.note)
       IN  /\ IsMiss(last)
           /\ next_note(lane) # None
           /\ position(rhythm)
                 - beat_position(rhythm, notes[next_note(lane)[1]].beat) = NOTE_WINDOW

\* C16: no step lowers the cursor of a lane that is still there after it;
\* the cursor starts again at 0 only in a Lane made anew by spawn_beatmap.
C16_CursorNeverDecreases ==
    [][\A l \in DOMAIN lanes \cap DOMAIN lanes' :
            lanes'[l].current_note >= lanes[l].current_note]_vars

\* a lane of two notes, one hit by a key and one swept as missed, after
\* reorder_notes has run on it
C16_Witness ==
    /\ pc = "first"
    /\ 0 \in DOMAIN lanes
    /\ Len(lanes[0].notes) = 2
    /\ lanes[0].current_note = 2
    /\ \E i, j \in DOMAIN judgement_events :
            IsHit(judgement_events[i]) /\ IsMiss(judgement_events[j])

\* C17: the note sequence of every lane is in ascending (not strictly) beat
\* order whenever reorder_notes has run, for notes pushed in one or several
\* frames and for equal beats, and it holds every note reorder_notes has
\* seen exactly once; at PostUpdate reorder_notes has a result for every
\* order in which the new notes may be pushed.
C17_LanesSortedByBeat ==
    /\ \A l \in DOMAIN lanes :
        /\ IsSortedByBeat(lanes[l].notes, notes)
        /\ \A i, j \in DOMAIN lanes[l].notes :
                i # j => lanes[l].notes[i] # lanes[l].notes[j]
        /\ Range(lanes[l].notes) =
                { e \in DOMAIN notes \ added_notes : notes[e].lane = l }
    /\ pc = "post" =>
            \A order \in Perms(added_notes) : \A l \in DOMAIN lanes :
                sort_unstable_by_beat(
                    lanes[l].notes \o SelectSeq(order, LAMBDA e : notes[e].lane = l),
                    notes) # {}

\* reorder_notes has put a spawned note in front of an older one of the same
\* beat
C17_Witness ==
    /\ pc = "first"
    /\ 0 \in DOMAIN lanes
    /\ lanes[0].notes = <<2, 1>>
    /\ notes[1].beat = notes[2].beat

\* C18: the clock is raw or interpolating.  A clock made by spawn_beatmap is
\* raw with position 0.  A tick of a raw clock sets the position to the
\* device timestamp it reads, and makes the clock interpolating exactly when
\* that timestamp differs from the one of the tick before (0 for a clock that
\* has not ticked).  An interpolating clock stays so until spawn_beatmap
\* makes a new one, and no other step changes the state.
C18_RawThenInterpolating ==
    [][/\ IsReinit => (~rhythm'.is_interpolating /\ position(rhythm') = 0)
       /\ (IsClockTick /\ ~rhythm.is_interpolating) =>
            /\ rhythm'.timestamp =
                    device_timestamp(device_rate, actl_timestamp[main_ctl])
            /\ position(rhythm') = rhythm'.timestamp
            /\ rhythm'.is_interpolating <=> (rhythm'.timestamp # rhythm.timestamp)
       /\ (~IsReinit /\ rhythm.is_interpolating) => rhythm'.is_interpolating
       /\ (~IsReinit /\ ~IsClockTick) =>
            rhythm'.is_interpolating = rhythm.is_interpolating]_vars

\* the clock of a second beatmap, on the tick that made it interpolating:
\* the position is the device timestamp, which has left 0
C18_Witness ==
    /\ loads = 1
    /\ instanced
    /\ pc \in {"input", "judge"}
    /\ rhythm.is_interpolating
    /\ rhythm.timestamp > 0
    /\ position(rhythm) = rhythm.timestamp
    /\ rhythm_elapsed = rhythm.timestamp

\* C19: a tick of an interpolating clock takes the position p shown after the
\* tick before, adds the wall-clock delta d and an eighth of the gap to the
\* device timestamp ts it reads: the new position is p + d + (ts - (p + d)) / 8,
\* also after ticks that moved the position back.
C19_InterpolatesFromPosition ==
    [][(IsClockTick /\ rhythm.is_interpolating) =>
        position(rhythm') = interpolate(position(rhythm), real_delta, rhythm'.timestamp)]_vars

\* the edge a note of the given kind is judged by
ExpectedEdge(kind) == IF kind = "SliderEnd" THEN "Up" ELSE "Down"

\* create_judgements is about to read one key event of a lane that has a
\* next note
KeyOnNextNote ==
    /\ pc = "judge"
    /\ instanced
    /\ Len(key_events) = 1
    /\ key_events[1].lane \in DOMAIN lanes
    /\ next_note(lanes[key_events[1].lane]) # None

\* C14: the next note of a lane is judged by the edge of its kind only: a
\* key-down judges an ordinary note and a slider-begin note, a key-up inside
\* the window judges a slider-end note, and an event of the other edge sends
\* nothing and moves no cursor.
C14_EdgeMatchesKind ==
    [][KeyOnNextNote =>
        LET key == key_events[1]
            e == next_note(lanes[key.lane])[1]
        IN  IF key.kind = ExpectedEdge(notes[e].kind)
            THEN Abs(KeyDownDistance) <= NOTE_WINDOW =>
                    /\ judgement_events' =
                            Append(judgement_events, JudgementEvent(e, Some(KeyDownDistance)))
                    /\ lanes'[key.lane].current_note = lanes[key.lane].current_note + 1
            ELSE /\ judgement_events' = judgement_events
                 /\ lanes' = lanes]_vars

(***************************************************************************)
(* Properties of the audio thread                                          *)
(***************************************************************************)
\* the step does not take a pair from the channel
NoAccept == Len(audio_queue') >= Len(audio_queue)

AllSilence(buf) == \A i \in DOMAIN buf : buf[i] = EQUILIBRIUM

\* C6: over callbacks that accept no new pair the consumed-sample counter of
\* a control state never decreases, whatever the source returned.
C6_CounterMonotonic ==
    [][NoAccept => \A c \in Ctls : actl_timestamp'[c] >= actl_timestamp[c]]_vars

\* a stream that counted frames and then failed: its counter kept its value
C6_Witness ==
    /\ cb_pc = "idle"
    /\ source # None
    /\ stream_failed
    /\ actl_timestamp[source[1].actl] > 0

\* C7: the callback that accepts a pair resets the pair's counter before it
\* counts anything, so the counter of the active control state is the number
\* of frames counted for the active stream, whatever it held before.
C7_CounterCountsActiveStream ==
    (cb_pc # "panicked" /\ source # None)
        => actl_timestamp[source[1].actl] = stream_frames

\* a control state that held a count when it was accepted again, and whose
\* new stream has produced frames since
C7_Witness ==
    /\ cb_pc = "idle"
    /\ source # None
    /\ counter_at_accept > 0
    /\ stream_frames > 0

\* the step is the start of a callback of audio_streamer
IsCallbackStart == cb_pc = "idle" /\ plays' = plays

\* the callback takes a pair from the channel
Accepts == Len(audio_queue') < Len(audio_queue)

\* the decoder the callback samples: the one just taken from the channel, or
\* the inner source of the active stream
InnerAtCall ==
    IF Accepts THEN Head(audio_queue).decoder ELSE source[1].resampler.inner

\* C21: a Resampler whose inner source has the target rate holds no
\* resampling state, and its sample(buf) is one inner sample(buf): the same
\* samples, the same count, the same error, the inner source left as that one
\* call leaves it, returned within the callback that asked.
C21_PassthroughIsInner ==
    [][(/\ IsCallbackStart
        /\ Accepts \/ source # None
        /\ InnerAtCall.sample_rate = device_rate) =>
        LET r == OggDecoder_sample(InnerAtCall, Len(data'))
        IN  /\ cb_pc' = "idle"
            /\ source'[1].resampler.state = None
            /\ source'[1].resampler.inner = r.inner
            /\ data' = (IF r.ok THEN r.samples ELSE <<>>)
                            \o Silence(Len(data') - (IF r.ok THEN Len(r.samples) ELSE 0))
            /\ ~r.ok => stream_failed']_vars

\* a passthrough stream whose last callback got a short read: samples of the
\* decoder followed by silence
C21_Witness ==
    /\ cb_pc = "idle"
    /\ source # None
    /\ source[1].resampler.state = None
    /\ source[1].resampler.inner.stream = <<>>
    /\ Len(data) = 4
    /\ data[1] # EQUILIBRIUM
    /\ data[4] = EQUILIBRIUM

\* the active stream is resampled and a processing step has left output in
\* to_buffer
HasLeftover ==
    /\ source # None
    /\ source[1].resampler.state # None
    /\ source[1].resampler.state[1].to_buffer_rem > 0

\* C22: output that a processing step (the flushing step included) left in
\* to_buffer is handed out first by the next request: next_chunk gives as
\* many of the leftover samples as the request takes, interleaved, and reads
\* no input for it; this also holds once the eof flag is set.
C22_LeftoverHandedOutFirst ==
    HasLeftover =>
        \A len \in BufLens, padded \in BOOLEAN :
            LET rs == source[1].resampler
                r == next_chunk(len, rs.inner, rs.state[1], rs.inner.channels, padded)
            IN  /\ r.ok
                /\ r.samples = interleave_samples(rs.state[1].to_buffer,
                                                  Min(rs.state[1].to_buffer_rem, len))
                /\ r.inner = rs.inner

\* C23: the buffers of the callbacks hold whole frames of every stream
\* played, and the count a sample() call of the active source returned,
\* from the decoder itself when the rates are equal and from the resampling
\* loop otherwise, is a multiple of the channels() of that source, the last
\* short read of a stream included.
C23_WholeFrames ==
    (cb_pc = "idle" /\ source # None) =>
        /\ Len(data) % source[1].resampler.inner.channels = 0
        /\ mix_len % source[1].resampler.inner.channels = 0

\* a two-channel stream read to its end by a call that came back short of
\* the buffer but not empty
C23_Witness ==
    /\ cb_pc = "idle"
    /\ source # None
    /\ source[1].resampler.inner.channels = 2
    /\ source[1].resampler.inner.stream = <<>>
    /\ remaining(source[1].resampler.inner) = 0
    /\ mix_len > 0
    /\ mix_len < Len(data)

\* the buffer from index mix_len on is silence, and what a decoder wrote
\* below it is still there (no decoded sample of the assets is the equilibrium)
PaddedFromMixLen ==
    /\ mix_len <= Len(data)
    /\ \A i \in (mix_len + 1)..Len(data) : data[i] = EQUILIBRIUM
    /\ (source # None /\ source[1].resampler.state = None) =>
            \A i \in 1..mix_len : data[i] # EQUILIBRIUM

\* C25: when a callback has returned, every element of the buffer at an
\* index from the number of samples the source gave on is the equilibrium
\* and the samples below it are not overwritten; a callback without a source,
\* and the callback in which the stream fails, leave the whole buffer silent.
C25_TailIsSilence ==
    [][cb_pc' = "idle" =>
        /\ PaddedFromMixLen'
        /\ (source' = None \/ (~stream_failed /\ stream_failed')) => AllSilence(data')]_vars

\* a callback whose source gave less than the buffer holds: samples below,
\* silence above
C25_Witness ==
    /\ cb_pc = "idle"
    /\ source # None
    /\ mix_len > 0
    /\ mix_len < Len(data)
    /\ data[mix_len] # EQUILIBRIUM
    /\ data[mix_len + 1] = EQUILIBRIUM

\* a step in which a callback with a source returns
CallbackReturns ==
    /\ cb_pc # "panicked"
    /\ cb_pc' = "idle"
    /\ plays' = plays
    /\ source' # None

\* the counter of the control state active when the callback returns, as the
\* callback found it or reset it
CounterBefore ==
    IF cb_pc = "idle" /\ Accepts THEN 0 ELSE actl_timestamp[source'[1].actl]

\* C26: a callback adds to the counter of the active control state the
\* frames its source produced, that is the samples sample() returned divided
\* by the channels() of the stream, and 0 when it produced nothing.
C26_CountsFramesProduced ==
    [][CallbackReturns =>
        actl_timestamp'[source'[1].actl]
            = CounterBefore + mix_len' \div source'[1].resampler.inner.channels]_vars

\* C27: play() appends its pair to the channel; a callback takes at most
\* one pair, the oldest, and unless it unwinds that pair is the active stream
\* when the step ends; the loop of a sample() call takes none.  A callback
\* that finds the channel empty keeps its source and can always take its
\* step.  So the k-th pending pair is taken by the k-th callback that follows.
C27_FifoOnePerCallback ==
    [][/\ (cb_pc = "idle" /\ audio_queue = <<>>) => ENABLED audio_streamer
       /\ plays' # plays =>
            /\ Len(audio_queue') = Len(audio_queue) + 1
            /\ SubSeq(audio_queue', 1, Len(audio_queue)) = audio_queue
       /\ (plays' = plays /\ cb_pc = "sampling") => audio_queue' = audio_queue
       /\ (IsCallbackStart /\ audio_queue = <<>>) =>
            /\ audio_queue' = <<>>
            /\ (source = None) = (source' = None)
            /\ source # None => source'[1].actl = source[1].actl
       /\ (IsCallbackStart /\ audio_queue # <<>>) =>
            /\ audio_queue' = Tail(audio_queue)
            /\ cb_pc' # "panicked" =>
                /\ source' # None
                /\ source'[1].actl = Head(audio_queue).actl
                /\ source'[1].resampler.to = device_rate
                /\ source'[1].resampler.inner.sample_rate
                        = Head(audio_queue).decoder.sample_rate
                /\ source'[1].resampler.inner.channels
                        = Head(audio_queue).decoder.channels]_vars

\* the first of two pairs sent is the active stream and the second, another
\* track on another control state, is still pending
C27_Witness ==
    /\ cb_pc = "idle"
    /\ plays = 2
    /\ Len(audio_queue) = 1
    /\ source # None
    /\ source[1].actl # audio_queue[1].actl
    /\ source[1].resampler.inner.sample_rate # audio_queue[1].decoder.sample_rate

\* C28: the callback that takes a new pair drops the stream it was playing:
\* its source is made from the new decoder alone and what it writes comes
\* from that decoder; and a step changes the counter of a control state only
\* if it takes a pair with that control state or that control state is the
\* one of the active stream, so the counter of a superseded stream keeps its
\* value until its control state is sent again.
C28_OldStreamSuperseded ==
    [][/\ \A c \in Ctls :
            actl_timestamp'[c] # actl_timestamp[c] =>
                \/ IsCallbackStart /\ Accepts /\ Head(audio_queue).actl = c
                \/ ~Accepts /\ source # None /\ source[1].actl = c
       /\ (IsCallbackStart /\ Accepts /\ cb_pc' # "panicked") =>
            LET new == Resampler_new(Head(audio_queue).decoder, device_rate).value
                r == OggDecoder_sample(new.inner, Len(data'))
            IN  IF new.state = None
                THEN /\ source'[1].resampler = [new EXCEPT !.inner = r.inner]
                     /\ r.ok => SubSeq(data', 1, mix_len') = r.samples
                     /\ ~r.ok => AllSilence(data')
                ELSE /\ source'[1].resampler = new
                     /\ mix' = <<>>]_vars

\* a stream that counted frames was superseded by a stream on the other
\* control state, which has counted frames since: the old counter is kept
C28_Witness ==
    /\ cb_pc = "idle"
    /\ plays = 2
    /\ audio_queue = <<>>
    /\ source # None
    /\ stream_frames > 0
    /\ \E c \in Ctls : c # source[1].actl /\ actl_timestamp[c] > 0

\* C29: when setup_sound_device has left the device without a state, play()
\* sends nothing, the counter of every control state stays 0, on every tick
\* the clock stays raw at position 0 with no time elapsed, and no callback
\* unwinds.
C29_NoDeviceDegrades ==
    audio_device = None =>
        /\ audio_queue = <<>>
        /\ \A c \in Ctls : actl_timestamp[c] = 0
        /\ ~rhythm.is_interpolating
        /\ position(rhythm) = 0
        /\ rhythm_elapsed = 0
        /\ cb_pc # "panicked"

\* without a device, the song was played in an earlier frame and the clock
\* of the instanced beatmap has ticked since
C29_Witness ==
    /\ audio_device = None
    /\ plays = 1
    /\ instanced
    /\ pc = "input"

\* the loop of Resampler::sample is at an iteration that writes no sample and
\* changes neither the resampler nor its inner source, whatever the library
\* answers: the next iteration is the same one, and the call never returns
StuckIteration ==
    /\ cb_pc = "sampling"
    /\ Len(mix) < buf_len
    /\ \A padded \in BOOLEAN :
        LET rs == source[1].resampler
            r == next_chunk(buf_len - Len(mix), rs.inner, rs.state[1],
                            rs.inner.channels, padded)
        IN  /\ r.ok
            /\ ~r.panic
            /\ r.samples = <<>>
            /\ r.inner = rs.inner
            /\ r.state = rs.state[1]

\* C8: every call of Resampler::sample returns: its loop never comes to an
\* iteration it cannot get past, also when the inner source runs out before
\* the output buffer is full.
C8_SampleReturns == ~StuckIteration

\* C9: once sample() of the active stream has returned an error, every later
\* callback that accepts no new pair leaves the buffer silent and the counters
\* as they were.
C9_FailedStreamSilent ==
    [][(stream_failed /\ NoAccept)
        => (AllSilence(data') /\ actl_timestamp' = actl_timestamp)]_vars

\* C10: no callback invocation unwinds.
C10_NoPanic == cb_pc # "panicked"

(***************************************************************************)
(* Properties of the OggDecoder                                            *)
(***************************************************************************)
RECURSIVE Flatten(_)
Flatten(packets) ==
    IF packets = <<>> THEN <<>> ELSE Head(packets).samples \o Flatten(Tail(packets))

\* what one sample() call on a fresh decoder returns for a buffer that holds
\* the whole stream
WholeStream(asset) ==
    OggDecoder_sample(OggDecoder_new(asset), MaxPackets * MaxPacketLen + 1).samples

\* C11: whatever the buffer sizes of the sample() calls, the samples returned
\* so far are a prefix of what a single call with a large buffer returns, and
\* once the stream has ended they are all of it; that is the samples of the
\* packets in order, none lost, doubled or moved.
C11_ChunkingInvariance ==
    /\ IsPrefix(decoded, WholeStream(dec_asset))
    /\ dec_ended => decoded = WholeStream(dec_asset)
    /\ WholeStream(dec_asset) = Flatten(dec_asset.packets)

\* a stream read to its end whose first packet is shorter than every buffer
\* used: a call crossed a packet boundary and left a packet partly read
C11_Witness ==
    /\ dec_ended
    /\ Len(dec_asset.packets) = 3
    /\ Len(dec_asset.packets[1].samples) = 1
    /\ Len(dec_asset.packets[2].samples) = 3
    /\ Len(decoded) >= 5

\* C24: whatever the buffer length, a sample() call returns without error
\* and never more than the buffer holds; it returns less only when no packet
\* and no buffered sample is left, so for a buffer that is not empty it
\* returns 0 only at the end of the stream; once a call has come back short,
\* every call returns 0.
C24_FillsUntilEndOfStream ==
    \A len \in DecBufLens :
        LET r == OggDecoder_sample(decoder, len)
        IN  /\ r.ok
            /\ Len(r.samples) <= len
            /\ Len(r.samples) < len =>
                    /\ r.inner.stream = <<>>
                    /\ remaining(r.inner) = 0
            /\ dec_ended => r.samples = <<>>

\* a stream that ended in a call that came back with one sample for a buffer
\* of two or three
C24_Witness ==
    /\ dec_ended
    /\ Len(decoded) = 1
    /\ Len(dec_asset.packets) > 1

(***************************************************************************)
(* Properties of beat_position and beat_number                             *)
(***************************************************************************)
\* C20: with the position at beat_position(b) for a beat b >= 0, whatever the
\* bpm and the offset, beat_number() is b within the rounding tolerance (a
\* thousandth of a beat, the last digit beat numbers are kept to); so
\* for bpm 170 and offset 570 ms it is 1 at position offset + crotchet.
C20_BeatNumberInvertsBeatPosition ==
    beat_out # None =>
        /\ position(clock) = beat_position(clock, beat_in[1])
        /\ Abs(beat_out[1] - beat_in[1] * BeatScale) <= 1

\* bpm 170, offset 570 ms, the clock at offset + crotchet: beat_number() is 1
C20_Witness ==
    /\ clock.bpm = 170
    /\ clock.offset = 570
    /\ position(clock) = clock.offset + clock.crotchet
    /\ beat_out = Some(1 * BeatScale)

(***************************************************************************)
(* Properties of AudioDevice::init                                         *)
(***************************************************************************)
\* the rate a range is taken at: the desired rate clamped into the range
ClampedRate(s) == Max(s.min_sample_rate, Min(DEFAULT_SAMPLE_RATE, s.max_sample_rate))

Distance(s) == Abs(ClampedRate(s) - DEFAULT_SAMPLE_RATE)

\* C30: init does not panic on the score of a range; it fails when no
\* configuration has 2 channels and the i16 format, and otherwise chooses
\* such a configuration at the desired rate clamped into its range, and no
\* other such configuration is nearer to the desired rate, whether the
\* ranges lie below, above or around it.
C30_ChoosesNearestRate ==
    init_result # None =>
        LET wanted == { i \in DOMAIN supported_configs :
                            is_wanted_config(supported_configs[i]) }
        IN  /\ ~init_result[1].panic
            /\ init_result[1].ok = (wanted # {})
            /\ init_result[1].ok =>
                    \E i \in wanted :
                        /\ init_result[1].sample_rate = ClampedRate(supported_configs[i])
                        /\ \A j \in wanted :
                                Distance(supported_configs[i])
                                    <= Distance(supported_configs[j])
(***************************************************************************)
(* Properties of the sliders                                               *)
(***************************************************************************)
\* the step of the frame at which the rhythm clock ticks
ClockTicks == pc \in {"clock", "clock_keys"} /\ pc' \in {"input", "judge"}

\* the sliders that are the active note of a lane whose key is down
HeldSliders ==
    { e \in DOMAIN sliders :
        \E l \in DOMAIN lanes : l \in keys_down /\ next_note(lanes[l]) = Some(e) }

\* no step of the frame changes a Slider
SlidersNeverChange ==
    [][\A e \in DOMAIN sliders : sliders'[e] = sliders[e]]_vars

\* C33: on a tick of the rhythm clock the held duration of a slider grows
\* by the delta of the tick when the key of its lane is down and it is the
\* active note of the lane, and stays as it is otherwise.
C33_SliderAccumulates ==
    [][ClockTicks =>
        \A e \in DOMAIN sliders :
            sliders'[e].duration_held =
                sliders[e].duration_held
                    + (IF e \in HeldSliders THEN rhythm_elapsed' - rhythm_elapsed ELSE 0)]_vars

(***************************************************************************)
(* Properties of the lane cursor                                           *)
(***************************************************************************)
\* a JudgementEvent was sent for the note
Judged(e) == \E i \in DOMAIN judgement_events : judgement_events[i].note = e

\* C37: in every lane the cursor is within the notes, the notes before the
\* cursor are the judged ones and the notes from the cursor on are not
\* judged, also after reorder_notes has put added notes into the lane.
C37_CursorKeepsNextNote ==
    \A l \in DOMAIN lanes :
        /\ lanes[l].current_note <= Len(lanes[l].notes)
        /\ \A i \in DOMAIN lanes[l].notes :
                Judged(lanes[l].notes[i]) <=> i <= lanes[l].current_note

\* a lane entity that is no lane of the beatmap
UnknownLane == 99

\* C38: create_judgements on one key event of a lane changes no other lane
\* and sends JudgementEvents for notes of that lane only; a key event of an
\* unknown lane, without an instanced beatmap, or of a lane with no note
\* left changes no lane and sends nothing.
C38_KeyTouchesOnlyItsLane ==
    \A l \in DOMAIN lanes \cup {UnknownLane}, kind \in KeyEventTypes,
       has_instance \in BOOLEAN :
        LET key == KeyEvent(position(rhythm), l, kind)
            res == create_judgements_from(1, <<key>>, lanes, notes, judgement_events,
                                          rhythm, has_instance)
            sent == SubSeq(res.events, Len(judgement_events) + 1, Len(res.events))
        IN  /\ IsPrefix(judgement_events, res.events)
            /\ DOMAIN res.lanes = DOMAIN lanes
            /\ \A k \in DOMAIN lanes : k # l => res.lanes[k] = lanes[k]
            /\ \A i \in DOMAIN sent : notes[sent[i].note].lane = l
            /\ (l \notin DOMAIN lanes \/ ~has_instance \/ next_note(lanes[l]) = None)
                    => res.lanes = lanes /\ res.events = judgement_events

\* a key-down hits the next note of lane 0 while lane 1 has notes left
C38_HitInOneOfTwoLanes ==
    /\ DOMAIN lanes = {0, 1}
    /\ lanes[1].current_note < Len(lanes[1].notes)
    /\ LET res == create_judgements_from(1, <<KeyEvent(position(rhythm), 0, "Down")>>,
                                          lanes, notes, judgement_events, rhythm, instanced)
       IN  Len(res.events) = Len(judgement_events) + 1

(***************************************************************************)
(* Properties of start_spawned_audio                                       *)
(***************************************************************************)
\* C40: the main track is handed to AudioDevice::play at most once, and
\* it has LoadedAudio exactly when it was; start_spawned_audio does nothing
\* while the song is not loaded or the entity has LoadedAudio, and once the
\* song is loaded it calls play once and marks the entity, whether play
\* returns Ok or Err.
C40_PlayedAtMostOnce ==
    /\ plays <= 1
    /\ loaded_audio <=> plays = 1
    /\ plays = 1 => song_loaded /\ play_result # None
    /\ \A new_ok \in BOOLEAN :
            LET r == start_spawned_audio_on(loaded_audio, song_loaded, audio_device,
                                            audio_queue, play_result, new_ok)
            IN  IF song_loaded /\ ~loaded_audio
                THEN r.calls = 1 /\ r.loaded_audio
                ELSE /\ r.calls = 0
                     /\ r.queue = audio_queue
                     /\ r.loaded_audio = loaded_audio

\* play has failed on a device that is open, the entity is marked and a
\* later frame has polled it again
C40_MarkedAfterFailedPlay ==
    /\ loaded_audio
    /\ play_result = Some("err")
    /\ audio_device # None
    /\ audio_queue = <<>>
    /\ rhythm_elapsed > 0
    /\ pc = "first"

(***************************************************************************)
(* Properties of the TrackedSource over an OggDecoder                      *)
(***************************************************************************)
IsSuffix(s, t) == Len(s) <= Len(t) /\ s = SubSeq(t, Len(t) - Len(s) + 1, Len(t))

\* the samples a decoder has still to hand out: the rest of the pending
\* block, then the packets of the stream that decode
Unread(d) == SubSeq(d.buffer, d.buffer_cursor + 1, Len(d.buffer)) \o Flatten(d.stream)

\* the samples of the file from the packet the last successful seek went to
FromSeek == Flatten(SubSeq(trk_asset.packets, trk_from, Len(trk_asset.packets)))

\* C32: right after a successful seek the pending buffer is empty and its
\* cursor is 0, and from then on every sample the decoder still hands out
\* is of a packet read after the seek.
C32_SeekClearsPending ==
    /\ trk_op = "seek" =>
            /\ tracked.inner.buffer = <<>>
            /\ tracked.inner.buffer_cursor = 0
    /\ trk_from > 0 => IsSuffix(Unread(tracked.inner), FromSeek)

C32_SampledAfterSeek ==
    /\ trk_op = "sample"
    /\ seeks = 1
    /\ trk_from > 1
    /\ sampled_since > 0
    /\ remaining(tracked.inner) > 0

C39_PositionTracksCalls ==
    [][/\ tracked'.position = seek_base' + sampled_since'
       /\ trk_op' \in {"sample_err", "seek_err"} =>
                tracked'.position = tracked.position]_vars

C39_SampledSeekedFailed ==
    /\ trk_op = "sample_err"
    /\ seek_base = 3
    /\ sampled_since > 0
    /\ tracked.position = 5

(***************************************************************************)
(* Properties of AudioControl::position                                    *)
(***************************************************************************)
\* counter / sample_rate seconds in whole nanoseconds, rounded down: the
\* whole seconds, and the nanoseconds of the frames beyond them
TrueNanos(sample_rate, counter) ==
    LET secs == counter \div sample_rate
        frames == counter % sample_rate
        q == NANOS_PER_SEC \div sample_rate
        rem == NANOS_PER_SEC % sample_rate
    IN  secs * NANOS_PER_SEC + frames * q + (frames * rem) \div sample_rate

\* one sample period in nanoseconds, rounded up
SamplePeriod(sample_rate) == NANOS_PER_SEC \div sample_rate + 1

\* C36: the position read is within one sample period of counter /
\* sample_rate seconds, at 44 100 Hz and at 48 000 Hz.
C36_PositionWithinOnePeriod ==
    pos_result # None =>
        Abs(TrueNanos(pos_rate, pos_result[1].timestamp) - pos_result[1].position)
            <= SamplePeriod(pos_rate) + 1

(***************************************************************************)
(* Properties of consume_buffer                                            *)
(***************************************************************************)
\* the frames of a block one after the other, each with its channels in order
InterleavedBlock(block) ==
    [i \in 1..(Len(block) * Len(block[1])) |->
        to_i16(block[((i - 1) % Len(block)) + 1][((i - 1) \div Len(block)) + 1])]

\* C34: with buffers of whole frames, what the consume_buffer calls have
\* returned of a block is the interleaving of its frames in order up to the
\* samples still to come, however the calls were split; the to_buffer_rem
\* samples still to come are the frames not yet returned, at the front of
\* every channel of to_buffer; and to_buffer_rem is never below zero.
C34_ConsumeInterleavesInOrder ==
    LET channels == Len(con_state.to_buffer)
        rem == con_state.to_buffer_rem
        block_len == Len(con_block[1])
    IN  /\ rem >= 0
        /\ rem % channels = 0
        /\ con_out \o interleave_samples(con_state.to_buffer, rem)
                = InterleavedBlock(con_block)
        /\ \A c \in 1..channels :
                SubSeq(con_state.to_buffer[c], 1, rem \div channels)
                    = SubSeq(con_block[c], block_len - rem \div channels + 1, block_len)

C34_BlockSplit ==
    /\ Len(con_state.to_buffer) = CHANNEL_COUNT
    /\ Len(con_block[1]) = 3
    /\ Len(con_out) = 2 * CHANNEL_COUNT
    /\ con_state.to_buffer_rem = CHANNEL_COUNT
    /\ con_produced > 3

(***************************************************************************)
(* Properties of the sorts by beat                                         *)
(***************************************************************************)
\* C31: when a note of the beatmap file or of the lane has the beat NaN,
\* the sort of the loader and the sort of reorder_notes panic, whatever the
\* number of notes, a single one included; so no NaN beat is in a sequence
\* a sort has returned.
C31_NaNRejected ==
    sort_result # None =>
        /\ NaN \in Range(note_beats) => sort_result[1].panic
        /\ ~sort_result[1].panic => NaN \notin Range(sort_result[1].beats)
====
